---------------------------- MODULE Spec2Model ----------------------------
(***************************************************************************)
(* State-machine model of the cloth simulation core of                     *)
(* Cloth_Simulation_WebGPU: Particle, SpringDamper, Triangle and the       *)
(* SimpleCloth mesh that owns them.                                        *)
(*                                                                         *)
(* Numbers.  The program computes in IEEE floats; the model computes in   *)
(* fixed point over the integers, with truncating division (Quot):         *)
(*   length        1 unit = 1 mm          velocity      mm/s               *)
(*   acceleration  mm/s^2                 mass          kg                 *)
(*   force         mN (kg mm/s^2)         clock         ms                 *)
(*   substep dt    microseconds           spring const  N/m                *)
(*   damping const mN s/m                 fluid density g/m^3              *)
(*   drag coeff.   1/1000                 unit vectors  components * One   *)
(* Every literal of the source is the same quantity in these units         *)
(* (0.05 m -> 50, 0.03 s -> 30000 us); EPSILON (1e-6) is one unit, the     *)
(* smallest positive quantity the grid can hold.                           *)
(*                                                                         *)
(* Aliasing.  SimpleCloth.positions[i] and particles[i].position are the   *)
(* same vec3 object (initialize passes this.positions[i] to the Particle   *)
(* constructor), so the model keeps one position per particle.             *)
(***************************************************************************)
EXTENDS Integers, Sequences, FiniteSets, TLC

(***************************************************************************)
(* Program constants                                                       *)
(***************************************************************************)
EPSILON == 1
BASE_COLLISION_MARGIN == 50
SphereMarginPad == 10
IntegratePushAway == 100
GroundPushAway == 50
CentroidMargin == 10
CentroidPushPad == 10
numOfOversamples == 20
MaxDeltaT == 30000
ContactPasses == 2

\* fixed-point scale of unit vectors, and of the milli-unit coefficients
One == 1000
\* microseconds per second, and per millisecond of the clock
MicrosPerSecond == 1000000
MicrosPerMilli == 1000

(***************************************************************************)
(* Arithmetic: gl-matrix vec3 and Math in fixed point                      *)
(***************************************************************************)
Abs(x) == IF x < 0 THEN -x ELSE x

Max(a, b) == IF a >= b THEN a ELSE b

Min(a, b) == IF a <= b THEN a ELSE b

\* division rounding toward zero, the fixed-point counterpart of "/"
Quot(a, b) == IF a >= 0 THEN a \div b ELSE -((-a) \div b)

\* The loops of the source make their calls in order, first to last.  Below,
\* a range of calls is made as its first half followed by its second half,
\* so that the evaluation nests once per halving and not once per call.  TLC
\* passes an operator its arguments unevaluated but computes a bound
\* variable when it binds it, so the state the first half leaves is bound
\* (mid \in {...}) before the second half is given it.
Half(first, last) == (first + last) \div 2

\* Heron's iteration from an upper bound x of the root: the floor of sqrt(n)
RECURSIVE SqrtFrom(_, _)
RECURSIVE SqrtStep(_, _, _)
SqrtStep(n, x, y) == IF y >= x THEN x ELSE SqrtFrom(n, y)

SqrtFrom(n, x) == SqrtStep(n, x, (x + n \div x) \div 2)

\* Math.sqrt, rounded down
ISqrt(n) == IF n <= 0 THEN 0 ELSE SqrtFrom(n, Min(n, 46340))

Zero3 == <<0, 0, 0>>

VAdd(a, b) == <<a[1] + b[1], a[2] + b[2], a[3] + b[3]>>

VSub(a, b) == <<a[1] - b[1], a[2] - b[2], a[3] - b[3]>>

VNeg(a) == <<-a[1], -a[2], -a[3]>>

Dot(a, b) == a[1] * b[1] + a[2] * b[2] + a[3] * b[3]

Cross(a, b) == <<a[2] * b[3] - a[3] * b[2],
                 a[3] * b[1] - a[1] * b[3],
                 a[1] * b[2] - a[2] * b[1]>>

\* x * num / den, truncated, for den > 0; the whole part of num / den (or
\* of x / den) is multiplied apart, which keeps the products inside the
\* machine integers
MulDiv(x, num, den) ==
    IF Abs(num) >= den
    THEN x * Quot(num, den) + Quot(x * (num - Quot(num, den) * den), den)
    ELSE Quot(x, den) * num + Quot((x - Quot(x, den) * den) * num, den)

\* vec3.scale by the quotient num/den
VScale(a, num, den) ==
    <<MulDiv(a[1], num, den), MulDiv(a[2], num, den), MulDiv(a[3], num, den)>>

MaxAbs(a) == Max(Abs(a[1]), Max(Abs(a[2]), Abs(a[3])))

\* the factor that brings every component of a below 20000, so that the
\* squares below stay inside the machine integers
Shrink(a) == MaxAbs(a) \div 20000 + 1

\* a divided by the factor s, component by component
Shrunk(a, s) == <<Quot(a[1], s), Quot(a[2], s), Quot(a[3], s)>>

\* the length of a vector whose squares fit the machine integers
Norm(w) == IF MaxAbs(w) = 0 THEN 0 ELSE SqrtFrom(Dot(w, w), 2 * MaxAbs(w))

LengthBy(a, s) == s * Norm(Shrunk(a, s))

\* vec3.length
Length(a) == LengthBy(a, Shrink(a))

UnitBy(w, len) == IF len > 0 THEN VScale(w, One, len) ELSE Zero3

Unit(w) == UnitBy(w, Norm(w))

\* vec3.normalize: the unit vector (components * One); the zero vector for a
\* vector of length zero, as gl-matrix returns
Normalize(a) == Unit(Shrunk(a, Shrink(a)))

\* a unit vector times a scalar
UScale(u, s) == VScale(u, s, One)

\* dot product of a vector with a unit vector
UDot(a, u) == Quot(Dot(a, u), One)

(***************************************************************************)
(* Ground collaborators (constructor arguments of the scene)               *)
(***************************************************************************)
SphereCenter == <<0, 0, 0>>
SphereRadius == 500

(***************************************************************************)
(* Particle                                                                *)
(***************************************************************************)
NewParticle(position, mass, gravityAcce, groundPos, sphere) ==
    [position |-> position, velocity |-> Zero3, force |-> Zero3,
     isFixed |-> FALSE, mass |-> mass, gravityAcce |-> gravityAcce,
     groundPos |-> groundPos, sphere |-> sphere, edgeLength |-> 0]

applyForce(p, f) == [p EXCEPT !.force = VAdd(p.force, f)]

applyGravity(p) == [p EXCEPT !.force[2] = @ - p.mass * p.gravityAcce]

getSphereCollisionMargin(p) ==
    IF ~p.sphere \/ p.edgeLength <= 0 THEN BASE_COLLISION_MARGIN
    ELSE LET r == SphereRadius
             halfEdge == Quot(p.edgeLength, 2)
             margin == ISqrt(r * r + halfEdge * halfEdge) - r
         IN  Max(margin + SphereMarginPad, BASE_COLLISION_MARGIN)

\* the velocity with its component toward the sphere removed and push added
StripInward(velocity, normal, push) ==
    LET velDotNormal == UDot(velocity, normal)
    IN  IF velDotNormal < 0
        THEN VAdd(VSub(velocity, UScale(normal, velDotNormal)),
                  UScale(normal, push))
        ELSE velocity

\* a plane collision that stops the particle at the ground height itself
groundCollisionNoMargin(p) ==
    IF p.sphere \/ p.position[2] >= p.groundPos THEN p
    ELSE [p EXCEPT !.position[2] = p.groundPos,
                   !.velocity[2] = IF @ < 0 THEN 0 ELSE @]

groundCollision(p) ==
    IF p.sphere
    THEN LET margin == getSphereCollisionMargin(p)
             toParticle == VSub(p.position, SphereCenter)
             distance == Length(toParticle)
         IN  IF distance < SphereRadius + margin
             THEN LET dir == IF distance < EPSILON THEN <<0, One, 0>>
                             ELSE Normalize(toParticle)
                  IN  [p EXCEPT
                         !.position = VAdd(SphereCenter,
                                           UScale(dir, SphereRadius + margin)),
                         !.velocity = StripInward(p.velocity, dir,
                                                  GroundPushAway)]
             ELSE p
    ELSE IF p.position[2] < p.groundPos + BASE_COLLISION_MARGIN
         THEN [p EXCEPT
                 !.position[2] = p.groundPos + BASE_COLLISION_MARGIN,
                 !.velocity[2] = IF @ < 0 THEN 0 ELSE @]
         ELSE p

enforceSphereContact(p) ==
    IF p.sphere
    THEN LET margin == getSphereCollisionMargin(p)
             toParticle == VSub(p.position, SphereCenter)
             distance == Length(toParticle)
             targetDist == SphereRadius + margin
         IN  IF distance < targetDist
             THEN LET dir == IF distance < EPSILON THEN <<0, One, 0>>
                             ELSE Normalize(toParticle)
                  IN  [p EXCEPT
                         !.position = VAdd(SphereCenter, UScale(dir, targetDist)),
                         !.velocity = StripInward(p.velocity, dir, 0)]
             ELSE p
    ELSE p

\* the body of integrate for a particle that is not fixed, up to the final
\* groundCollision: gravity, velocity and position
Advance(p, deltaTime) ==
    LET q == applyGravity(p)
        a == VScale(q.force, 1, q.mass)
    IN  IF Length(a) > EPSILON
        THEN LET v0 == VAdd(q.velocity, VScale(a, deltaTime, MicrosPerSecond))
                 v1 == IF Length(v0) < EPSILON THEN Zero3 ELSE v0
                 deltaP == VScale(v1, deltaTime, MicrosPerSecond)
                 newPos == VAdd(q.position, deltaP)
                 margin == getSphereCollisionMargin(q)
                 toNewPos == VSub(newPos, SphereCenter)
             IN  IF q.sphere /\ Length(toNewPos) < SphereRadius + margin
                 THEN LET dir == Normalize(toNewPos)
                      IN  [q EXCEPT
                             !.position = VAdd(SphereCenter,
                                               UScale(dir, SphereRadius + margin)),
                             !.velocity = StripInward(v1, dir, IntegratePushAway)]
                 ELSE [q EXCEPT !.position = newPos, !.velocity = v1]
        ELSE q

\* integrate without the early return of a fixed particle
integrateUnguarded(p, deltaTime) ==
    [groundCollision(Advance(p, deltaTime)) EXCEPT !.force = Zero3]

\* an integrate that empties the accumulator of a fixed particle too
integrateClearing(p, deltaTime) ==
    IF p.isFixed THEN [p EXCEPT !.force = Zero3]
    ELSE [groundCollision(Advance(p, deltaTime)) EXCEPT !.force = Zero3]

integrate(p, deltaTime) ==
    IF p.isFixed THEN p
    ELSE [groundCollision(Advance(p, deltaTime)) EXCEPT !.force = Zero3]

(***************************************************************************)
(* SpringDamper: p1 and p2 are indices into the particle array             *)
(***************************************************************************)
NewSpringDamper(p1, p2, springConst, dampingConst, restLength) ==
    [p1 |-> p1, p2 |-> p2, springConst |-> springConst,
     dampingConst |-> dampingConst, restLength |-> restLength]

\* a spring force that normalises the direction whatever the length is
SpringTotalForceUnguarded(ps, sp) ==
    LET d == VSub(ps[sp.p2].position, ps[sp.p1].position)
        currLength == Length(d)
        dir == Normalize(d)
        sf == UScale(dir, -sp.springConst * (sp.restLength - currLength))
        springForce == IF Length(sf) < EPSILON THEN Zero3 ELSE sf
        relVel == VSub(ps[sp.p1].velocity, ps[sp.p2].velocity)
        v == UDot(relVel, dir)
        df == UScale(dir, Quot(-sp.dampingConst * v, One))
        damperForce == IF Length(df) < EPSILON THEN Zero3 ELSE df
    IN  VAdd(springForce, damperForce)

\* the force computeForce applies to p1 (and, negated, to p2)
SpringTotalForce(ps, sp) ==
    LET d == VSub(ps[sp.p2].position, ps[sp.p1].position)
        currLength == Length(d)
        dir == IF currLength > EPSILON THEN Normalize(d) ELSE Zero3
        sf == UScale(dir, -sp.springConst * (sp.restLength - currLength))
        springForce == IF Length(sf) < EPSILON THEN Zero3 ELSE sf
        relVel == VSub(ps[sp.p1].velocity, ps[sp.p2].velocity)
        v == UDot(relVel, dir)
        df == UScale(dir, Quot(-sp.dampingConst * v, One))
        damperForce == IF Length(df) < EPSILON THEN Zero3 ELSE df
    IN  VAdd(springForce, damperForce)

\* a spring that pulls on its first end only
ApplyToFirstEnd(ps, p1, p2, f) == [ps EXCEPT ![p1] = applyForce(@, f)]

\* p1.applyForce(f); p2.applyForce(-f)
ApplyToEnds(ps, p1, p2, f) ==
    [ps EXCEPT ![p1] = applyForce(@, f), ![p2] = applyForce(@, VNeg(f))]

computeForce(ps, sp) == ApplyToEnds(ps, sp.p1, sp.p2, SpringTotalForce(ps, sp))

\* the direction a spring remembers: the constructor stores p2 - p1 and
\* computeForce overwrites it with the unit direction when the length is
\* above EPSILON. computeForce never reads it, which is why the springs of a
\* mesh are modelled without it
ConstructorDir(ps, p1, p2) == VSub(ps[p2].position, ps[p1].position)

RememberDir(ps, sp, d) ==
    IF Length(d) > EPSILON THEN [sp EXCEPT !.prevDir = Normalize(d)] ELSE sp

(***************************************************************************)
(* Triangle: p1, p2, p3 are indices into the particle array                *)
(***************************************************************************)
NewTriangle(p1, p2, p3, fluidDensity, c_d, windVelocity) ==
    [p1 |-> p1, p2 |-> p2, p3 |-> p3, fluidDensity |-> fluidDensity,
     c_d |-> c_d, windVelocity |-> windVelocity]

\* the force computeAerodynamicForce applies to each of the three vertices
AeroVertexForce(ps, tri) ==
    LET surfaceVelocity ==
            VScale(VAdd(VAdd(ps[tri.p1].velocity, ps[tri.p2].velocity),
                        ps[tri.p3].velocity), 1, 3)
        rel == VSub(surfaceVelocity, tri.windVelocity)
        v_scale == Length(rel)
    IN  IF v_scale < EPSILON THEN Zero3
        ELSE LET v_dir == Normalize(rel)
                 edge1 == VSub(ps[tri.p2].position, ps[tri.p1].position)
                 edge2 == VSub(ps[tri.p3].position, ps[tri.p1].position)
                 cr == Cross(edge1, edge2)
                 area == Length(cr)
                 n == Normalize(cr)
                 actualArea == Quot(area, 2)
                 crossArea == Quot(actualArea * UDot(v_dir, n), One)
                 \* -0.5 * rho * v^2 * C_d * A, in mN
                 rhoV2 == Quot(tri.fluidDensity * Quot(v_scale * v_scale, One), One)
                 rhoV2Cd == Quot(rhoV2 * tri.c_d, One)
                 mag == -Quot(rhoV2Cd * Quot(crossArea, One), 2 * One)
             IN  VScale(UScale(n, mag), 1, 3)

\* p1.applyForce(f); p2.applyForce(f); p3.applyForce(f)
ApplyToVertices(ps, tri, f) ==
    [ps EXCEPT ![tri.p1] = applyForce(@, f), ![tri.p2] = applyForce(@, f),
               ![tri.p3] = applyForce(@, f)]

\* p1.addNormal(n); p2.addNormal(n); p3.addNormal(n)
AddNormal(ns, tri, n) ==
    [ns EXCEPT ![tri.p1] = VAdd(@, n), ![tri.p2] = VAdd(@, n),
               ![tri.p3] = VAdd(@, n)]

\* computeNormal, from the cross product of the two edges on
AddFaceNormal(ns, tri, n) ==
    IF Length(n) < EPSILON THEN ns ELSE AddNormal(ns, tri, Normalize(n))

computeNormal(ns, ps, tri) ==
    AddFaceNormal(ns, tri,
                  Cross(VSub(ps[tri.p2].position, ps[tri.p1].position),
                        VSub(ps[tri.p3].position, ps[tri.p1].position)))

computeAerodynamicForce(ps, tri) ==
    LET rel == VSub(VScale(VAdd(VAdd(ps[tri.p1].velocity, ps[tri.p2].velocity),
                                ps[tri.p3].velocity), 1, 3), tri.windVelocity)
    IN  IF Length(rel) < EPSILON THEN ps
        ELSE ApplyToVertices(ps, tri, AeroVertexForce(ps, tri))

(***************************************************************************)
(* SimpleCloth: construction of the grid (initialize)                      *)
(***************************************************************************)
\* constructor arguments of the two scenes of main.ts, at a quarter of their
\* size: a sheet hanging over the plane, and a sheet lying level above the
\* sphere
ClothSize == 1000
PlaneTopLeft == <<-500, 950, 0>>
PlaneHori == <<1, 0, 0>>
PlaneVert == <<0, -1, 0>>
SphereTopLeft == <<-500, 1000, 500>>
SphereHori == <<1, 0, 0>>
SphereVert == <<0, 0, -1>>

topLeftPos(spherical) == IF spherical THEN SphereTopLeft ELSE PlaneTopLeft

horiDir(spherical) == Normalize(IF spherical THEN SphereHori ELSE PlaneHori)

vertDir(spherical) == Normalize(IF spherical THEN SphereVert ELSE PlaneVert)

\* the square root rounded down instead of up, and at least one quad
QuadsPerSideFloor(n) ==
    LET r == ISqrt(n \div 2)
    IN  IF r = 0 THEN 1 ELSE r

\* Math.ceil(Math.sqrt(numTriangles / 2))
QuadsPerSide(n) ==
    LET r == ISqrt(n \div 2)
    IN  IF 2 * r * r >= n THEN r ELSE r + 1

GridSizeOf(n) == QuadsPerSide(n) + 1

\* the ground height initialize keeps: lowered below the sheet's top edge
InitGroundPos(spherical, gp) ==
    IF gp > topLeftPos(spherical)[2] THEN topLeftPos(spherical)[2] - EPSILON
    ELSE gp

\* positions of the grid, row-major; a vertex below the ground is laid on
\* the ground, one grid step from the vertex above it
GridVertex(spherical, g, gp, acc, i) ==
    LET x == i % g
        y == i \div g
        gridLength == Quot(ClothSize, g - 1)
        planeDir == LET c == Cross(horiDir(spherical), vertDir(spherical))
                    IN  Normalize(<<c[1], 0, c[3]>>)
        flat == VAdd(VAdd(topLeftPos(spherical),
                          UScale(horiDir(spherical), x * gridLength)),
                     UScale(vertDir(spherical), y * gridLength))
        j == i - g
    IN  IF flat[2] < gp /\ j >= 0
        THEN VAdd(acc[j + 1], UScale(planeDir, gridLength))
        ELSE flat

\* the vertices first..last appended to the positions acc of those before
RECURSIVE GridRange(_, _, _, _, _, _)
GridRange(spherical, g, gp, acc, first, last) ==
    IF Len(acc) >= 0 /\ first > last THEN acc
    ELSE IF first = last
    THEN Append(acc, GridVertex(spherical, g, gp, acc, first))
    ELSE GridRange(spherical, g, gp,
                   GridRange(spherical, g, gp, acc, first, Half(first, last)),
                   Half(first, last) + 1, last)

GridPositions(spherical, g, gp, acc, i) ==
    GridRange(spherical, g, gp, acc, i, g * g - 1)

\* the vertex normals of a new grid: the sheet's normal, or straight down
\* for a vertex that was below the ground
BuildNormals(spherical, g, gp) ==
    [i \in 0..(g * g - 1) |->
        IF VAdd(VAdd(topLeftPos(spherical),
                     UScale(horiDir(spherical), (i % g) * Quot(ClothSize, g - 1))),
                UScale(vertDir(spherical), (i \div g) * Quot(ClothSize, g - 1)))[2]
               < gp
        THEN <<0, -One, 0>>
        ELSE Normalize(Cross(vertDir(spherical), horiDir(spherical)))]

\* a particle inside the sphere is pushed to its surface before the springs
\* are created
PushOutside(pos) ==
    LET toParticle == VSub(pos, SphereCenter)
    IN  IF Length(toParticle) < SphereRadius + EPSILON
        THEN VAdd(SphereCenter,
                  UScale(Normalize(toParticle), SphereRadius + EPSILON))
        ELSE pos

\* ensureSphereCollisionData, for one particle
BindSphere(p, edge) == [p EXCEPT !.sphere = TRUE, !.edgeLength = edge]

\* a new particle that initialize leaves free whatever its row
PlacedLoose(p, spherical, gridLength, fixed) ==
    IF spherical
    THEN [BindSphere(p, gridLength) EXCEPT
            !.position = PushOutside(p.position), !.isFixed = FALSE]
    ELSE [p EXCEPT !.isFixed = FALSE]

\* a new particle as initialize leaves it: bound to the sphere and outside
\* it on the sphere scene, fixed when it belongs to the top row
Placed(p, spherical, gridLength, fixed) ==
    IF spherical
    THEN [BindSphere(p, gridLength) EXCEPT
            !.position = PushOutside(p.position), !.isFixed = fixed]
    ELSE [p EXCEPT !.isFixed = fixed]

ParticlesAt(grid, spherical, g, gp, pmass, grav) ==
    [i \in 0..(g * g - 1) |->
        Placed(NewParticle(grid[i + 1], pmass, grav, gp, spherical),
               spherical, Quot(ClothSize, g - 1), i < g)]

BuildParticles(spherical, g, gp, pmass, grav) ==
    ParticlesAt(GridPositions(spherical, g, gp, <<>>, 0),
                spherical, g, gp, pmass, grav)

\* the quads in creation order
QuadSeq(g) ==
    [k \in 1..((g - 1) * (g - 1)) |->
        LET x == (k - 1) % (g - 1)
            y == (k - 1) \div (g - 1)
            tl == x + y * g
        IN  [x |-> x, y |-> y, topLeftIdx |-> tl, topRightIdx |-> tl + 1,
             bottomLeftIdx |-> tl + g, bottomRightIdx |-> tl + g + 1]]

\* the sequences first..last of ss, joined in order
RECURSIVE FlattenRange(_, _, _)
FlattenRange(ss, first, last) ==
    IF first > last THEN <<>>
    ELSE IF first = last THEN ss[first]
    ELSE FlattenRange(ss, first, Half(first, last))
             \o FlattenRange(ss, Half(first, last) + 1, last)

Flatten(ss) == FlattenRange(ss, 1, Len(ss))

\* an index list whose second triangle of a quad is wound the other way
BuildIndicesFlipped(g) ==
    Flatten([k \in 1..((g - 1) * (g - 1)) |->
        LET q == QuadSeq(g)[k]
        IN  <<q.topLeftIdx, q.bottomLeftIdx, q.bottomRightIdx,
              q.topLeftIdx, q.topRightIdx, q.bottomRightIdx>>])

BuildIndices(g) ==
    Flatten([k \in 1..((g - 1) * (g - 1)) |->
        LET q == QuadSeq(g)[k]
        IN  <<q.topLeftIdx, q.bottomLeftIdx, q.bottomRightIdx,
              q.topLeftIdx, q.bottomRightIdx, q.topRightIdx>>])

BuildTriangles(g, rho, cd, wind) ==
    Flatten([k \in 1..((g - 1) * (g - 1)) |->
        LET q == QuadSeq(g)[k]
        IN  <<NewTriangle(q.topLeftIdx, q.bottomLeftIdx, q.bottomRightIdx,
                          rho, cd, wind),
              NewTriangle(q.topLeftIdx, q.bottomRightIdx, q.topRightIdx,
                          rho, cd, wind)>>])

\* rest length of a spring: the distance of its ends on the sphere scene,
\* the theoretical length on the plane scene
RestLen(spherical, ps, a, b, theoretical) ==
    IF spherical THEN Length(VSub(ps[a].position, ps[b].position))
    ELSE theoretical

\* a spring creation that leaves out the springs of the last column and of
\* the last row
BuildConnectionsOpen(spherical, g, ps, k, c) ==
    LET restLength == Quot(ClothSize, g - 1)
        restLengthDiag == ISqrt(2 * restLength * restLength)
        S(a, b, l) == NewSpringDamper(a, b, k, c, RestLen(spherical, ps, a, b, l))
    IN  Flatten([n \in 1..((g - 1) * (g - 1)) |->
            LET q == QuadSeq(g)[n]
            IN  <<S(q.topLeftIdx, q.topRightIdx, restLength),
                  S(q.topLeftIdx, q.bottomRightIdx, restLengthDiag),
                  S(q.topLeftIdx, q.bottomLeftIdx, restLength),
                  S(q.bottomLeftIdx, q.topRightIdx, restLengthDiag)>>])

BuildConnections(spherical, g, ps, k, c) ==
    LET restLength == Quot(ClothSize, g - 1)
        restLengthDiag == ISqrt(2 * restLength * restLength)
        S(a, b, l) == NewSpringDamper(a, b, k, c, RestLen(spherical, ps, a, b, l))
    IN  Flatten([n \in 1..((g - 1) * (g - 1)) |->
            LET q == QuadSeq(g)[n]
            IN  <<S(q.topLeftIdx, q.topRightIdx, restLength),
                  S(q.topLeftIdx, q.bottomRightIdx, restLengthDiag),
                  S(q.topLeftIdx, q.bottomLeftIdx, restLength),
                  S(q.bottomLeftIdx, q.topRightIdx, restLengthDiag)>>
                \o (IF q.x = g - 2
                    THEN <<S(q.topRightIdx, q.bottomRightIdx, restLength)>>
                    ELSE <<>>)
                \o (IF q.y = g - 2
                    THEN <<S(q.bottomLeftIdx, q.bottomRightIdx, restLength)>>
                    ELSE <<>>)])

Positions(ps) == [i \in DOMAIN ps |-> ps[i].position]

(***************************************************************************)
(* SimpleCloth.update: the oversampled physics step                        *)
(***************************************************************************)
\* the particles with their force accumulators blanked
SansForce(ps) == [i \in DOMAIN ps |-> [ps[i] EXCEPT !.force = Zero3]]

\* one entry of the call log of update: the call, its substep, the deltaTime
\* it was given (0 for the calls that take none), and whether it left
\* everything but the force accumulators as it found it
Event(call, substep, deltaT, before, after) ==
    [call |-> call, substep |-> substep, deltaT |-> deltaT,
     pure |-> SansForce(before) = SansForce(after)]

\* the state of update after a call: the particles it left, and the log
\* with the call appended
Logged(st, call, i, deltaT, after) ==
    [ps |-> after, log |-> Append(st.log, Event(call, i, deltaT, st.ps, after))]

\* sp.computeForce() for the springs first..last of the list
RECURSIVE SpringRange(_, _, _, _, _)
SpringRange(st, conns, first, last, i) ==
    IF first = last
    THEN Logged(st, "computeForce", i, 0, computeForce(st.ps, conns[first]))
    ELSE CHOOSE after \in
             {SpringRange(mid, conns, Half(first, last) + 1, last, i) :
                 mid \in {SpringRange(st, conns, first, Half(first, last), i)}} :
             TRUE

SpringPass(st, conns, k, i) ==
    IF k > Len(conns) THEN st ELSE SpringRange(st, conns, k, Len(conns), i)

\* tri.computeAerodynamicForce() for the triangles first..last of the list
RECURSIVE AeroRange(_, _, _, _, _)
AeroRange(st, tris, first, last, i) ==
    IF first = last
    THEN Logged(st, "computeAerodynamicForce", i, 0,
                computeAerodynamicForce(st.ps, tris[first]))
    ELSE CHOOSE after \in
             {AeroRange(mid, tris, Half(first, last) + 1, last, i) :
                 mid \in {AeroRange(st, tris, first, Half(first, last), i)}} :
             TRUE

AeroPass(st, tris, k, i) ==
    IF k > Len(tris) THEN st ELSE AeroRange(st, tris, k, Len(tris), i)

\* p.integrate(deltaT) for the particles first..last
RECURSIVE IntegrateRange(_, _, _, _, _)
IntegrateRange(st, first, last, i, deltaT) ==
    IF first = last
    THEN Logged(st, "integrate", i, deltaT,
                [st.ps EXCEPT ![first] = integrate(@, deltaT)])
    ELSE CHOOSE after \in
             {IntegrateRange(mid, Half(first, last) + 1, last, i, deltaT) :
                 mid \in {IntegrateRange(st, first, Half(first, last), i, deltaT)}} :
             TRUE

IntegratePass(st, k, i, deltaT) ==
    IF k \notin DOMAIN st.ps THEN st
    ELSE IntegrateRange(st, k, Cardinality(DOMAIN st.ps) - 1, i, deltaT)

\* an oversampling iteration that integrates before it evaluates the forces
SubstepIntegrateFirst(st, conns, tris, i, deltaT) ==
    CHOOSE after \in
        {AeroPass(sprung, tris, 1, i) :
            sprung \in {SpringPass(moved, conns, 1, i) :
                moved \in {IntegratePass(st, 0, i, deltaT)}}} : TRUE

\* one iteration of the oversampling loop
Substep(st, conns, tris, i, deltaT) ==
    CHOOSE after \in
        {IntegratePass(blown, 0, i, deltaT) :
            blown \in {AeroPass(sprung, tris, 1, i) :
                sprung \in {SpringPass(st, conns, 1, i)}}} : TRUE

\* the iterations first..last of the oversampling loop
RECURSIVE SubstepRange(_, _, _, _, _, _)
SubstepRange(st, conns, tris, first, last, deltaT) ==
    IF first = last THEN Substep(st, conns, tris, first, deltaT)
    ELSE CHOOSE after \in
             {SubstepRange(mid, conns, tris, Half(first, last) + 1, last, deltaT) :
                 mid \in {SubstepRange(st, conns, tris, first, Half(first, last),
                                       deltaT)}} :
             TRUE

SubstepLoop(st, conns, tris, i, deltaT) ==
    IF i >= numOfOversamples THEN st
    ELSE SubstepRange(st, conns, tris, i, numOfOversamples - 1, deltaT)

\* the post-integration projection of one particle
ContactProjection(p) == enforceSphereContact(p)

RECURSIVE ContactLoop(_, _)
ContactLoop(ps, iter) ==
    IF iter >= ContactPasses THEN ps
    ELSE ContactLoop([i \in DOMAIN ps |-> ContactProjection(ps[i])], iter + 1)

\* enforceTriangleCentroidProjection, for the triangle whose first index is
\* at position k of the index list
CentroidPush(ps, idx, k) ==
    LET i0 == idx[k]
        i1 == idx[k + 1]
        i2 == idx[k + 2]
        centroid == VScale(VAdd(VAdd(ps[i0].position, ps[i1].position),
                                ps[i2].position), 1, 3)
        toCentroid == VSub(centroid, SphereCenter)
        distance == Length(toCentroid)
        minDistance == SphereRadius + CentroidMargin
        pushAmount == Quot(minDistance - distance, 3) + CentroidPushPad
        dir == IF distance < EPSILON THEN <<0, One, 0>>
               ELSE Normalize(toCentroid)
        Push(p) == IF p.isFixed THEN p
                   ELSE [p EXCEPT !.position = VAdd(@, UScale(dir, pushAmount))]
        q0 == [ps EXCEPT ![i0] = Push(@)]
        q1 == [q0 EXCEPT ![i1] = Push(@)]
        q2 == [q1 EXCEPT ![i2] = Push(@)]
    IN  IF distance < minDistance THEN q2 ELSE ps

\* the triangles first..last of the index list, triangle t being the three
\* indices from position 3t - 2
RECURSIVE CentroidRange(_, _, _, _)
CentroidRange(ps, idx, first, last) ==
    IF DOMAIN ps # {} /\ first > last THEN ps
    ELSE IF first = last THEN CentroidPush(ps, idx, 3 * first - 2)
    ELSE CentroidRange(CentroidRange(ps, idx, first, Half(first, last)),
                       idx, Half(first, last) + 1, last)

CentroidPass(ps, idx, k) ==
    CentroidRange(ps, idx, (k + 2) \div 3, Len(idx) \div 3)

enforceTriangleCentroidProjection(spherical, ps, idx) ==
    IF ~spherical THEN ps ELSE CentroidPass(ps, idx, 1)

\* the normals update leaves: reset, summed over the triangles, normalised
RECURSIVE NormalRange(_, _, _, _, _)
NormalRange(ns, ps, tris, first, last) ==
    IF DOMAIN ns # {} /\ first > last THEN ns
    ELSE IF first = last THEN computeNormal(ns, ps, tris[first])
    ELSE NormalRange(NormalRange(ns, ps, tris, first, Half(first, last)),
                     ps, tris, Half(first, last) + 1, last)

NormalPass(ns, ps, tris, k) == NormalRange(ns, ps, tris, k, Len(tris))

NormaliseNormals(ns) ==
    [i \in DOMAIN ns |-> IF Length(ns[i]) > EPSILON THEN Normalize(ns[i]) ELSE ns[i]]

ComputeNormals(ps, tris) ==
    NormaliseNormals(NormalPass([i \in DOMAIN ps |-> Zero3], ps, tris, 1))

\* the substep length update passes to integrate, in microseconds
SubstepDeltaT(currT, prev) ==
    Quot(Min((currT - prev) * MicrosPerMilli, MaxDeltaT), numOfOversamples)

\* the physics of one update call: particles and call log
\* what follows the oversampling loop: the contact passes and the centroid
\* projection
PostProcess(spherical, st, idx) ==
    [ps |-> enforceTriangleCentroidProjection(spherical,
                                              ContactLoop(st.ps, 0), idx),
     log |-> st.log]

StepPhysics(spherical, ps, conns, tris, idx, deltaT) ==
    CHOOSE after \in
        {PostProcess(spherical, st, idx) :
            st \in {SubstepLoop([ps |-> ps, log |-> <<>>], conns, tris, 0,
                                deltaT)}} : TRUE

(***************************************************************************)
(* State of one SimpleCloth mesh and of its collaborators                  *)
(***************************************************************************)
VARIABLES
    isSphericalGround,  \* ground instanceof SphericalGround
    numTriangles,       \* target triangle count
    gridSize,
    restLength,
    particleMass,
    mass, gravityAcce, groundPos, springConst, dampingConst,
    windVelocity, fluidDensity, c_d,
    particles,          \* 0..gridSize^2-1 -> Particle
    connections,        \* sequence of SpringDamper
    triangles,          \* sequence of Triangle
    indices,
    fixedParticleIdx,
    initialPositions,
    builds,             \* initialize() runs so far: the generation of the
                        \* Particle, SpringDamper and Triangle instances
    isDropped,
    prevT,
    positionBuffer,     \* contents of the GPU position buffer
    normals,            \* 0..gridSize^2-1 -> vertex normal (the normal of
                        \* particle i and normals[i] are one array)
    groundLevel,        \* Ground.groundLevel of the plane collaborator
    now,                \* performance.now(), in ms
    lastOp,             \* the operation that produced this state
    log,                \* call log of the last update
    frames,             \* update calls made so far
    edits,              \* setter and fixed-row calls made so far
    scenes,             \* main.ts: scene index -> [mode, cloth]
    currentSceneIndex

physVars == <<particles, positionBuffer, log, normals>>

topoVars == <<numTriangles, gridSize, restLength, particleMass, connections,
              triangles, indices, fixedParticleIdx, initialPositions, builds>>

paramVars == <<mass, gravityAcce, groundPos, springConst, dampingConst,
               windVelocity, fluidDensity, c_d, groundLevel>>

timeVars == <<isDropped, prevT, now>>

countVars == <<frames, edits>>

sceneVars == <<scenes, currentSceneIndex>>

vars == <<isSphericalGround, sceneVars, physVars, topoVars, paramVars, timeVars, lastOp,
          countVars>>

(***************************************************************************)
(* Bounds of the model and the inputs the operations draw from             *)
(***************************************************************************)
MaxFrames == 3
MaxEdits == 1
MaxLegacyEdits == 2
MaxLegacyFrames == 2
StartTime == 5
InitialTriangles == 2

Elapsed == {16}
TriangleValues == {2, 8}
MassValues == {36}
GravityValues == {-400000}
SpringValues == {-500}
DampingValues == {-15000}
WindValues == {<<0, 0, 20000>>}
FluidValues == {-3000}
DragValues == {-2000}
GroundValues == {1000}
ShiftValues == {-900}
Axes == 0..2
QuarterTurns == {1}

(***************************************************************************)
(* The scene manager of main.ts: two scenes, each with a mode and a cloth. *)
(* A cloth is kept here by what the manager decides about it: its class,   *)
(* its ground, the count it was built for, whether the settings of scene 2 *)
(* were applied, its dropped flag and whether it has a previous timestamp  *)
(***************************************************************************)
NewSceneCloth(class, ground, count) ==
    [class |-> class, ground |-> ground, count |-> count, gentle |-> FALSE,
     isDropped |-> FALSE, timed |-> FALSE]

createCloth(numParticles) == NewSceneCloth("Cloth", "Ground", numParticles)

createClothWithSphere(numParticles) ==
    NewSceneCloth("Cloth", "SphericalGround", numParticles)

createSimpleCloth(n) == NewSceneCloth("SimpleCloth", "Ground", n)

createSimpleClothWithSphere(n) == NewSceneCloth("SimpleCloth", "SphericalGround", n)

\* setGravityAcce(0.8), setFluidDensity(3.0), setWindVelocity(0), ...
GentleSettings(cloth) == [cloth EXCEPT !.gentle = TRUE]

SceneEnablePhysics(cloth) == [cloth EXCEPT !.isDropped = TRUE]

\* the cloth a scene gets when one is created for it
FreshCloth(class, useSphere, count) ==
    CASE class = "Cloth" /\ useSphere ->
            GentleSettings(createClothWithSphere(count))
      [] class = "Cloth" /\ ~useSphere ->
            SceneEnablePhysics(createCloth(count))
      [] class = "SimpleCloth" /\ useSphere ->
            GentleSettings(createSimpleClothWithSphere(count))
      [] OTHER -> SceneEnablePhysics(createSimpleCloth(count))

NewScene(cloth, mode) == [cloth |-> cloth, mode |-> mode]

\* init(): scene 1 over the plane with physics enabled, scene 2 over the
\* sphere, both in physics mode with 25 particles per side
InitialScenes ==
    [i \in 0..1 |->
        IF i = 0 THEN NewScene(FreshCloth("Cloth", FALSE, 25), "physics")
        ELSE NewScene(FreshCloth("Cloth", TRUE, 25), "physics")]

ScenesCreated ==
    /\ scenes = InitialScenes
    /\ currentSceneIndex = 0

(***************************************************************************)
(* Construction                                                            *)
(***************************************************************************)
\* the field initialisers of the class
DefaultMass == 100
DefaultGravityAcce == 2000
DefaultSpringConst == 1000
DefaultDampingConst == 3500
DefaultFluidDensity == 1225
DefaultDragConst == 1000
DefaultWindVelocity == <<500, 500, -2500>>
DefaultGroundPos == 0

\* initialize(): the part of the state a build writes; the springs and the
\* stored positions are made from the particles just created
Initialize(n) ==
    /\ numTriangles' = n
    /\ gridSize' = GridSizeOf(n)
    /\ restLength' = Quot(ClothSize, gridSize' - 1)
    /\ particleMass' = Quot(mass, gridSize' * gridSize')
    /\ groundPos' = InitGroundPos(isSphericalGround, groundPos)
    /\ particles' = BuildParticles(isSphericalGround, gridSize', groundPos',
                                   particleMass', gravityAcce)
    /\ triangles' = BuildTriangles(gridSize', fluidDensity, c_d, windVelocity)
    /\ connections' = BuildConnections(isSphericalGround, gridSize', particles',
                                       springConst, dampingConst)
    /\ indices' = BuildIndices(gridSize')
    /\ fixedParticleIdx' = [i \in 1..gridSize' |-> i - 1]
    /\ initialPositions' = Positions(particles')
    /\ positionBuffer' = Positions(particles')
    /\ normals' = BuildNormals(isSphericalGround, gridSize', groundPos')
    /\ builds' = builds + 1

\* the mesh a constructor leaves behind, for the scene already chosen
Constructed ==
    /\ numTriangles = InitialTriangles
    /\ gridSize = GridSizeOf(InitialTriangles)
    /\ restLength = Quot(ClothSize, gridSize - 1)
    /\ particleMass = Quot(DefaultMass, gridSize * gridSize)
    /\ particles = BuildParticles(isSphericalGround, gridSize, DefaultGroundPos,
                                  particleMass, DefaultGravityAcce)
    /\ triangles = BuildTriangles(gridSize, DefaultFluidDensity, DefaultDragConst,
                                  DefaultWindVelocity)
    /\ connections = BuildConnections(isSphericalGround, gridSize, particles,
                                      DefaultSpringConst, DefaultDampingConst)
    /\ indices = BuildIndices(gridSize)
    /\ fixedParticleIdx = [i \in 1..gridSize |-> i - 1]
    /\ initialPositions = Positions(particles)
    /\ positionBuffer = Positions(particles)
    /\ normals = BuildNormals(isSphericalGround, gridSize, DefaultGroundPos)
    /\ builds = 1
    /\ mass = DefaultMass
    /\ gravityAcce = DefaultGravityAcce
    /\ groundPos = DefaultGroundPos
    /\ springConst = DefaultSpringConst
    /\ dampingConst = DefaultDampingConst
    /\ windVelocity = DefaultWindVelocity
    /\ fluidDensity = DefaultFluidDensity
    /\ c_d = DefaultDragConst
    /\ groundLevel = DefaultGroundPos
    /\ now = StartTime
    /\ lastOp = "constructor"
    /\ log = <<>>
    /\ frames = 0
    /\ edits = 0
    /\ ScenesCreated

Init ==
    /\ isSphericalGround \in BOOLEAN
    /\ Constructed
    /\ isDropped = FALSE
    /\ prevT = 0

(***************************************************************************)
(* Operations of SimpleCloth                                               *)
(***************************************************************************)
\* an update without the Idle return
IsIdleNever(dropped) == FALSE

\* the early returns of update
IsIdle(dropped) == ~dropped

\* an update without the first-frame return
IsFirstFrameNever(prev) == FALSE

IsFirstFrame(prev) == prev = 0

\* the previous timestamp an update leaves that returns while Idle
IdleTimestamp(prev, currT) == IF prev = 0 THEN currT ELSE prev

\* updateBuffers: what is written to the GPU position buffer
updateBuffers(ps) == Positions(ps)

\* the state a physics step leaves: the particles, the call log, and the
\* position buffer updateBuffers writes from the particles
Simulated(r) ==
    /\ particles' = r.ps
    /\ log' = r.log
    /\ normals' = ComputeNormals(particles', triangles)
    /\ positionBuffer' = updateBuffers(particles')

\* update, for a caller that draws at most budget frames
UpdateWithin(el, budget) ==
    /\ frames < budget
    /\ frames' = frames + 1
    /\ now' = now + el
    /\ lastOp' = "update"
    /\ IF IsIdle(isDropped)
       THEN /\ prevT' = IdleTimestamp(prevT, now + el)
            /\ log' = <<>>
            /\ UNCHANGED <<particles, positionBuffer, normals>>
       ELSE IF IsFirstFrame(prevT)
       THEN /\ prevT' = now + el
            /\ log' = <<>>
            /\ UNCHANGED <<particles, positionBuffer, normals>>
       ELSE /\ prevT' = now + el
            /\ Simulated(StepPhysics(isSphericalGround, particles, connections,
                                     triangles, indices,
                                     SubstepDeltaT(now + el, prevT)))
    /\ UNCHANGED <<isSphericalGround, sceneVars, topoVars, paramVars, isDropped, edits>>

Update(el) == UpdateWithin(el, MaxFrames)

\* the fixed flag written for the first index of the fixed set only
SetFixedFirst(ps, idx, fixed) ==
    [i \in DOMAIN ps |->
        IF idx[1] = i THEN [ps[i] EXCEPT !.isFixed = fixed] ELSE ps[i]]

\* the particles with the fixed flag of every index of the fixed set written
SetFixedSet(ps, idx, fixed) ==
    [i \in DOMAIN ps |->
        IF \E k \in DOMAIN idx : idx[k] = i THEN [ps[i] EXCEPT !.isFixed = fixed]
        ELSE ps[i]]

ensureSphereCollisionData(spherical, ps, edge) ==
    IF ~spherical THEN ps ELSE [i \in DOMAIN ps |-> BindSphere(ps[i], edge)]

\* a drop that leaves the fixed flags alone
DropKeepingFixed(spherical, ps, idx, edge) ==
    ensureSphereCollisionData(spherical, ps, edge)

DropParticles(spherical, ps, idx, edge) ==
    SetFixedSet(ensureSphereCollisionData(spherical, ps, edge), idx, FALSE)

Drop ==
    /\ lastOp' = "drop"
    /\ isDropped' = TRUE
    /\ particles' = DropParticles(isSphericalGround, particles, fixedParticleIdx,
                                  restLength)
    /\ positionBuffer' = updateBuffers(particles')
    /\ log' = <<>>
    /\ UNCHANGED <<isSphericalGround, sceneVars, normals, topoVars, paramVars, prevT, now, countVars>>

EnablePhysics ==
    /\ lastOp' = "enablePhysics"
    /\ isDropped' = TRUE
    /\ log' = <<>>
    /\ UNCHANGED <<isSphericalGround, sceneVars, normals, particles, positionBuffer, topoVars,
                   paramVars, prevT, now, countVars>>

\* a reset that zeroes the motion but leaves every particle where it is
ResetKeepingPositions(spherical, ps, idx, initial, edge) ==
    LET bound == ensureSphereCollisionData(spherical, ps, edge)
        rest == [i \in DOMAIN ps |->
                    [bound[i] EXCEPT !.velocity = Zero3, !.force = Zero3]]
    IN  SetFixedSet(rest, idx, TRUE)

ResetParticles(spherical, ps, idx, initial, edge) ==
    LET bound == ensureSphereCollisionData(spherical, ps, edge)
        rest == [i \in DOMAIN ps |->
                    [bound[i] EXCEPT !.position = initial[i],
                                     !.velocity = Zero3, !.force = Zero3]]
    IN  SetFixedSet(rest, idx, TRUE)

ResetToInitialState ==
    /\ lastOp' = "resetToInitialState"
    /\ particles' = ResetParticles(isSphericalGround, particles, fixedParticleIdx,
                                   initialPositions, restLength)
    /\ prevT' = 0
    /\ isDropped' = FALSE
    /\ positionBuffer' = updateBuffers(particles')
    /\ log' = <<>>
    /\ UNCHANGED <<isSphericalGround, sceneVars, normals, topoVars, paramVars, now, countVars>>

ResetTiming ==
    /\ lastOp' = "resetTiming"
    /\ prevT' = 0
    /\ particles' = [i \in DOMAIN particles |->
                        [particles[i] EXCEPT !.velocity = Zero3, !.force = Zero3]]
    /\ log' = <<>>
    /\ UNCHANGED <<isSphericalGround, sceneVars, normals, positionBuffer, topoVars, paramVars,
                   isDropped, now, countVars>>

\* positions[idx][axis] += shift, for every index of the fixed set
TranslateParticles(ps, idx, axis, shift) ==
    [i \in DOMAIN ps |->
        IF \E k \in DOMAIN idx : idx[k] = i
        THEN [ps[i] EXCEPT !.position[axis + 1] = @ + shift]
        ELSE ps[i]]

\* translateFixedParticles, for a caller that makes at most budget edits
TranslateWithin(axis, shift, budget) ==
    /\ edits < budget
    /\ edits' = edits + 1
    /\ lastOp' = "translateFixedParticles"
    /\ particles' = TranslateParticles(particles, fixedParticleIdx, axis, shift)
    /\ log' = <<>>
    /\ UNCHANGED <<isSphericalGround, sceneVars, normals, positionBuffer, topoVars, paramVars,
                   timeVars, frames>>

TranslateFixedParticles(axis, shift) == TranslateWithin(axis, shift, MaxEdits)

\* cosine and sine of a whole number of quarter turns
CosQ(q) == CASE q % 4 = 0 -> 1 [] q % 4 = 2 -> -1 [] OTHER -> 0

SinQ(q) == CASE q % 4 = 1 -> 1 [] q % 4 = 3 -> -1 [] OTHER -> 0

\* vec3.transformMat4 by mat4.rotateX / rotateY / rotateZ of the identity
Rotate(v, axis, q) ==
    LET c == CosQ(q)
        s == SinQ(q)
    IN  CASE axis = 0 -> <<v[1], v[2] * c - v[3] * s, v[2] * s + v[3] * c>>
          [] axis = 1 -> <<v[1] * c + v[3] * s, v[2], v[3] * c - v[1] * s>>
          [] axis = 2 -> <<v[1] * c - v[2] * s, v[1] * s + v[2] * c, v[3]>>
          [] OTHER -> v

RotateParticles(ps, idx, axis, q) ==
    LET first == ps[idx[1]].position
        last == ps[idx[Len(idx)]].position
        midPoint == VScale(VAdd(first, last), 1, 2)
    IN  [i \in DOMAIN ps |->
            IF \E k \in DOMAIN idx : idx[k] = i
            THEN [ps[i] EXCEPT
                    !.position = VAdd(midPoint, Rotate(VSub(@, midPoint), axis, q))]
            ELSE ps[i]]

RotateFixedParticles(axis, q) ==
    /\ edits < MaxEdits
    /\ edits' = edits + 1
    /\ lastOp' = "rotateFixedParticles"
    /\ particles' = RotateParticles(particles, fixedParticleIdx, axis, q)
    /\ log' = <<>>
    /\ UNCHANGED <<isSphericalGround, sceneVars, normals, positionBuffer, topoVars, paramVars,
                   timeVars, frames>>

(***************************************************************************)
(* Parameter setters                                                       *)
(***************************************************************************)
\* every element of a sequence or array with one field written
Broadcast(elems, field, value) ==
    [i \in DOMAIN elems |-> [elems[i] EXCEPT ![field] = value]]

\* what each setter writes to the elements it owns
MassBroadcast(ps, pm) == Broadcast(ps, "mass", pm)

GravityBroadcast(ps, g) == Broadcast(ps, "gravityAcce", g)

SpringConstBroadcast(conns, k) == Broadcast(conns, "springConst", k)

DampingConstBroadcast(conns, c) == Broadcast(conns, "dampingConst", c)

WindBroadcast(tris, v) == Broadcast(tris, "windVelocity", v)

FluidDensityBroadcast(tris, rho) == Broadcast(tris, "fluidDensity", rho)

DragConstBroadcast(tris, c) == Broadcast(tris, "c_d", c)

Setter(name, budget) ==
    /\ edits < budget
    /\ edits' = edits + 1
    /\ lastOp' = name
    /\ log' = <<>>
    /\ UNCHANGED <<isSphericalGround, sceneVars, normals, positionBuffer, timeVars, frames,
                   numTriangles, gridSize, restLength, indices, fixedParticleIdx,
                   initialPositions, builds>>

SetMass(m, budget) ==
    /\ Setter("setMass", budget)
    /\ mass' = m
    /\ particleMass' = Quot(m, gridSize * gridSize)
    /\ particles' = MassBroadcast(particles, particleMass')
    /\ UNCHANGED <<gravityAcce, groundPos, springConst, dampingConst, windVelocity,
                   fluidDensity, c_d, groundLevel, connections, triangles>>

\* a setGravityAcce that stores its argument as it is
SetGravityAcceSigned(g, budget) ==
    /\ Setter("setGravityAcce", budget)
    /\ gravityAcce' = g
    /\ particles' = GravityBroadcast(particles, gravityAcce')
    /\ UNCHANGED <<mass, particleMass, groundPos, springConst, dampingConst,
                   windVelocity, fluidDensity, c_d, groundLevel, connections,
                   triangles>>

SetGravityAcce(g, budget) ==
    /\ Setter("setGravityAcce", budget)
    /\ gravityAcce' = Abs(g)
    /\ particles' = GravityBroadcast(particles, gravityAcce')
    /\ UNCHANGED <<mass, particleMass, groundPos, springConst, dampingConst,
                   windVelocity, fluidDensity, c_d, groundLevel, connections,
                   triangles>>

\* SphericalGround has no setGroundLevel: on the sphere scene the call raises
\* a TypeError after the mesh's own field is written
SetGroundPos(h, budget) ==
    /\ Setter("setGroundPos", budget)
    /\ groundPos' = h
    /\ IF isSphericalGround
       THEN UNCHANGED <<groundLevel, particles>>
       ELSE /\ groundLevel' = h
            /\ particles' = Broadcast(particles, "groundPos", h)
    /\ UNCHANGED <<mass, particleMass, gravityAcce, springConst, dampingConst,
                   windVelocity, fluidDensity, c_d, connections, triangles>>

SetSpringConst(k, budget) ==
    /\ Setter("setSpringConst", budget)
    /\ springConst' = Abs(k)
    /\ connections' = SpringConstBroadcast(connections, springConst')
    /\ UNCHANGED <<mass, particleMass, gravityAcce, groundPos, dampingConst,
                   windVelocity, fluidDensity, c_d, groundLevel, particles,
                   triangles>>

SetDampingConst(c, budget) ==
    /\ Setter("setDampingConst", budget)
    /\ dampingConst' = Abs(c)
    /\ connections' = DampingConstBroadcast(connections, dampingConst')
    /\ UNCHANGED <<mass, particleMass, gravityAcce, groundPos, springConst,
                   windVelocity, fluidDensity, c_d, groundLevel, particles,
                   triangles>>

SetWindVelocity(v, budget) ==
    /\ Setter("setWindVelocity", budget)
    /\ windVelocity' = v
    /\ triangles' = WindBroadcast(triangles, v)
    /\ UNCHANGED <<mass, particleMass, gravityAcce, groundPos, springConst,
                   dampingConst, fluidDensity, c_d, groundLevel, particles,
                   connections>>

SetFluidDensity(rho, budget) ==
    /\ Setter("setFluidDensity", budget)
    /\ fluidDensity' = Abs(rho)
    /\ triangles' = FluidDensityBroadcast(triangles, fluidDensity')
    /\ UNCHANGED <<mass, particleMass, gravityAcce, groundPos, springConst,
                   dampingConst, windVelocity, c_d, groundLevel, particles,
                   connections>>

SetDragConst(c, budget) ==
    /\ Setter("setDragConst", budget)
    /\ c_d' = Abs(c)
    /\ triangles' = DragConstBroadcast(triangles, c_d')
    /\ UNCHANGED <<mass, particleMass, gravityAcce, groundPos, springConst,
                   dampingConst, windVelocity, fluidDensity, groundLevel, particles,
                   connections>>

\* a setNumTriangles without the early return of an unchanged target
SetNumTrianglesAlways(n, budget) ==
    /\ edits < budget
    /\ edits' = edits + 1
    /\ lastOp' = "setNumTriangles"
    /\ log' = <<>>
    /\ Initialize(n)
    /\ UNCHANGED <<isSphericalGround, sceneVars, mass, gravityAcce, springConst, dampingConst,
                   windVelocity, fluidDensity, c_d, groundLevel, timeVars, frames>>

\* a rebuild that starts the mesh as the constructor does: Idle, no timestamp
SetNumTrianglesAsNew(n, budget) ==
    /\ edits < budget
    /\ edits' = edits + 1
    /\ lastOp' = "setNumTriangles"
    /\ log' = <<>>
    /\ IF numTriangles = n
       THEN UNCHANGED <<topoVars, groundPos, particles, positionBuffer, normals,
                        isDropped, prevT>>
       ELSE Initialize(n) /\ isDropped' = FALSE /\ prevT' = 0
    /\ UNCHANGED <<isSphericalGround, sceneVars, mass, gravityAcce, springConst, dampingConst,
                   windVelocity, fluidDensity, c_d, groundLevel, now, frames>>

SetNumTriangles(n, budget) ==
    /\ edits < budget
    /\ edits' = edits + 1
    /\ lastOp' = "setNumTriangles"
    /\ log' = <<>>
    /\ IF numTriangles = n
       THEN UNCHANGED <<topoVars, groundPos, particles, positionBuffer, normals>>
       ELSE Initialize(n)
    /\ UNCHANGED <<isSphericalGround, sceneVars, mass, gravityAcce, springConst, dampingConst,
                   windVelocity, fluidDensity, c_d, groundLevel, timeVars, frames>>

Next ==
    \/ \E el \in Elapsed : Update(el)
    \/ Drop
    \/ EnablePhysics
    \/ ResetToInitialState
    \/ ResetTiming
    \/ \E axis \in Axes, shift \in ShiftValues : TranslateFixedParticles(axis, shift)
    \/ \E axis \in Axes, q \in QuarterTurns : RotateFixedParticles(axis, q)
    \/ \E m \in MassValues : SetMass(m, MaxEdits)
    \/ \E g \in GravityValues : SetGravityAcce(g, MaxEdits)
    \/ \E h \in GroundValues : SetGroundPos(h, MaxEdits)
    \/ \E k \in SpringValues : SetSpringConst(k, MaxEdits)
    \/ \E c \in DampingValues : SetDampingConst(c, MaxEdits)
    \/ \E v \in WindValues : SetWindVelocity(v, MaxEdits)
    \/ \E rho \in FluidValues : SetFluidDensity(rho, MaxEdits)
    \/ \E c \in DragValues : SetDragConst(c, MaxEdits)
    \/ \E n \in TriangleValues : SetNumTriangles(n, MaxEdits)

Spec == Init /\ [][Next]_vars

(***************************************************************************)
(* Resizing: a mesh that is rebuilt several times between frames           *)
(***************************************************************************)
MaxResizes == 2

NextResize ==
    \/ \E el \in Elapsed : Update(el)
    \/ Drop
    \/ ResetToInitialState
    \/ \E n \in TriangleValues : SetNumTriangles(n, MaxResizes)

SpecResize == Init /\ [][NextResize]_vars

(***************************************************************************)
(* The sphere scene: a sheet whose top row is carried around and under the *)
(* sphere, dropped or held, between frames                                 *)
(***************************************************************************)
MaxMoves == 2

SphereShifts == {-1375, -375}

InitSphere ==
    /\ isSphericalGround = TRUE
    /\ Constructed
    /\ isDropped = FALSE
    /\ prevT = 0

NextSphere ==
    \/ \E el \in Elapsed : Update(el)
    \/ Drop
    \/ \E axis \in Axes, shift \in SphereShifts :
           TranslateWithin(axis, shift, MaxMoves)

SpecSphere == InitSphere /\ [][NextSphere]_vars

(***************************************************************************)
(* The first SimpleCloth (src/src/SimpleCloth.ts): a mesh over the plane   *)
(* that simulates from construction on, and whose spring setters write    *)
(* the mesh fields only                                                    *)
(***************************************************************************)
\* the collision margin of the first Particle (src/src/physics/Particle.ts)
COLLISION_MARGIN == 20

LegacyElapsed == {16, 40}

LegacyGroundCollision(p) ==
    IF p.sphere
    THEN LET toParticle == VSub(p.position, SphereCenter)
             distance == Length(toParticle)
         IN  IF distance < SphereRadius + COLLISION_MARGIN
             THEN LET dir == IF distance < EPSILON THEN <<0, One, 0>>
                             ELSE Normalize(toParticle)
                  IN  [p EXCEPT
                         !.position = VAdd(SphereCenter,
                                           UScale(dir, SphereRadius + COLLISION_MARGIN)),
                         !.velocity = StripInward(p.velocity, dir,
                                                  GroundPushAway)]
             ELSE p
    ELSE IF p.position[2] < p.groundPos + COLLISION_MARGIN
         THEN [p EXCEPT
                 !.position[2] = p.groundPos + COLLISION_MARGIN,
                 !.velocity[2] = IF @ < 0 THEN 0 ELSE @]
         ELSE p

LegacyAdvance(p, deltaTime) ==
    LET q == applyGravity(p)
        a == VScale(q.force, 1, q.mass)
    IN  IF Length(a) > EPSILON
        THEN LET v0 == VAdd(q.velocity, VScale(a, deltaTime, MicrosPerSecond))
                 v1 == IF Length(v0) < EPSILON THEN Zero3 ELSE v0
                 deltaP == VScale(v1, deltaTime, MicrosPerSecond)
                 newPos == VAdd(q.position, deltaP)
                 toNewPos == VSub(newPos, SphereCenter)
             IN  IF q.sphere /\ Length(toNewPos) < SphereRadius + COLLISION_MARGIN
                 THEN LET dir == Normalize(toNewPos)
                      IN  [q EXCEPT
                             !.position = VAdd(SphereCenter,
                                               UScale(dir, SphereRadius
                                                             + COLLISION_MARGIN)),
                             !.velocity = StripInward(v1, dir, IntegratePushAway)]
                 ELSE [q EXCEPT !.position = newPos, !.velocity = v1]
        ELSE q

LegacyIntegrate(p, deltaTime) ==
    IF p.isFixed THEN p
    ELSE [LegacyGroundCollision(LegacyAdvance(p, deltaTime)) EXCEPT !.force = Zero3]

RECURSIVE LegacyIntegrateRange(_, _, _, _, _)
LegacyIntegrateRange(st, first, last, i, deltaT) ==
    IF first = last
    THEN Logged(st, "integrate", i, deltaT,
                [st.ps EXCEPT ![first] = LegacyIntegrate(@, deltaT)])
    ELSE CHOOSE after \in
             {LegacyIntegrateRange(mid, Half(first, last) + 1, last, i, deltaT) :
                 mid \in {LegacyIntegrateRange(st, first, Half(first, last),
                                               i, deltaT)}} :
             TRUE

LegacyIntegratePass(st, k, i, deltaT) ==
    IF k \notin DOMAIN st.ps THEN st
    ELSE LegacyIntegrateRange(st, k, Cardinality(DOMAIN st.ps) - 1, i, deltaT)

LegacySubstep(st, conns, tris, i, deltaT) ==
    CHOOSE after \in
        {LegacyIntegratePass(blown, 0, i, deltaT) :
            blown \in {AeroPass(sprung, tris, 1, i) :
                sprung \in {SpringPass(st, conns, 1, i)}}} : TRUE

RECURSIVE LegacySubstepRange(_, _, _, _, _, _)
LegacySubstepRange(st, conns, tris, first, last, deltaT) ==
    IF first = last THEN LegacySubstep(st, conns, tris, first, deltaT)
    ELSE CHOOSE after \in
             {LegacySubstepRange(mid, conns, tris, Half(first, last) + 1, last,
                                 deltaT) :
                 mid \in {LegacySubstepRange(st, conns, tris, first,
                                             Half(first, last), deltaT)}} :
             TRUE

LegacySubstepLoop(st, conns, tris, i, deltaT) ==
    IF i >= numOfOversamples THEN st
    ELSE LegacySubstepRange(st, conns, tris, i, numOfOversamples - 1, deltaT)

\* the substep length of the first update: the elapsed time, not clamped
LegacySubstepDeltaT(currT, prev) ==
    Quot((currT - prev) * MicrosPerMilli, numOfOversamples)

LegacyUpdate(el) ==
    /\ frames < MaxLegacyFrames
    /\ frames' = frames + 1
    /\ now' = now + el
    /\ lastOp' = "update"
    /\ prevT' = now + el
    /\ Simulated(LegacySubstepLoop([ps |-> particles, log |-> <<>>], connections,
                                   triangles, 0,
                                   LegacySubstepDeltaT(now + el, prevT)))
    /\ UNCHANGED <<isSphericalGround, sceneVars, topoVars, paramVars, isDropped, edits>>

InitLegacy ==
    /\ isSphericalGround = FALSE
    /\ Constructed
    /\ isDropped = TRUE
    /\ prevT = StartTime

LegacySetSpringConst(k) ==
    /\ Setter("setSpringConst", MaxLegacyEdits)
    /\ springConst' = Abs(k)
    /\ UNCHANGED <<mass, particleMass, gravityAcce, groundPos, dampingConst,
                   windVelocity, fluidDensity, c_d, groundLevel, particles,
                   connections, triangles>>

LegacySetDampingConst(c) ==
    /\ Setter("setDampingConst", MaxLegacyEdits)
    /\ dampingConst' = Abs(c)
    /\ UNCHANGED <<mass, particleMass, gravityAcce, groundPos, springConst,
                   windVelocity, fluidDensity, c_d, groundLevel, particles,
                   connections, triangles>>

NextLegacy ==
    \/ \E el \in LegacyElapsed : LegacyUpdate(el)
    \/ \E m \in MassValues : SetMass(m, MaxLegacyEdits)
    \/ \E g \in GravityValues : SetGravityAcce(g, MaxLegacyEdits)
    \/ \E h \in GroundValues : SetGroundPos(h, MaxLegacyEdits)
    \/ \E k \in SpringValues : LegacySetSpringConst(k)
    \/ \E c \in DampingValues : LegacySetDampingConst(c)
    \/ \E v \in WindValues : SetWindVelocity(v, MaxLegacyEdits)
    \/ \E rho \in FluidValues : SetFluidDensity(rho, MaxLegacyEdits)
    \/ \E c \in DragValues : SetDragConst(c, MaxLegacyEdits)
    \/ \E n \in TriangleValues : SetNumTriangles(n, MaxLegacyEdits)

SpecLegacy == InitLegacy /\ [][NextLegacy]_vars

(***************************************************************************)
(* The triangle-count control on its own: every target from 1 to MaxTarget *)
(***************************************************************************)
MaxTarget == 19
MaxCounts == 2

TargetValues == 1..MaxTarget

\* indexCount / 3; createBuffers sets indexCount to the length of indices
getNumTriangles == Len(indices) \div 3

NextCount ==
    \/ \E n \in TargetValues : SetNumTriangles(n, MaxCounts)
    \/ ResetToInitialState

SpecCount == Init /\ [][NextCount]_vars

(***************************************************************************)
(* The controls of the application used one after another: parameters set, *)
(* the grid rebuilt, before and after the sheet is dropped                 *)
(***************************************************************************)
MaxTunes == 2
MaxTuneFrames == 2

NextTune ==
    \/ \E el \in Elapsed : UpdateWithin(el, MaxTuneFrames)
    \/ Drop
    \/ \E m \in MassValues : SetMass(m, MaxTunes)
    \/ \E g \in GravityValues : SetGravityAcce(g, MaxTunes)
    \/ \E h \in GroundValues : SetGroundPos(h, MaxTunes)
    \/ \E k \in SpringValues : SetSpringConst(k, MaxTunes)
    \/ \E c \in DampingValues : SetDampingConst(c, MaxTunes)
    \/ \E v \in WindValues : SetWindVelocity(v, MaxTunes)
    \/ \E rho \in FluidValues : SetFluidDensity(rho, MaxTunes)
    \/ \E c \in DragValues : SetDragConst(c, MaxTunes)
    \/ \E n \in TriangleValues : SetNumTriangles(n, MaxTunes)

SpecTune == Init /\ [][NextTune]_vars

(***************************************************************************)
(* Rebuilds during which the device refuses a buffer                       *)
(***************************************************************************)
MaxRebuilds == 3

\* positionBuffer after destroy() set it to null
NoBuffer == <<>>

\* setNumTriangles when createBuffers throws: the target is written, the
\* buffers are destroyed, initialize has built the new grid and stored its
\* positions, and the exception leaves through setNumTriangles; the position
\* buffer is still null, or new if a later createBuffer call was the one
\* that threw
SetNumTrianglesThrowing(n, budget) ==
    /\ edits < budget
    /\ numTriangles # n
    /\ edits' = edits + 1
    /\ lastOp' = "setNumTriangles throws"
    /\ log' = <<>>
    /\ numTriangles' = n
    /\ gridSize' = GridSizeOf(n)
    /\ restLength' = Quot(ClothSize, gridSize' - 1)
    /\ particleMass' = Quot(mass, gridSize' * gridSize')
    /\ groundPos' = InitGroundPos(isSphericalGround, groundPos)
    /\ particles' = BuildParticles(isSphericalGround, gridSize', groundPos',
                                   particleMass', gravityAcce)
    /\ triangles' = BuildTriangles(gridSize', fluidDensity, c_d, windVelocity)
    /\ connections' = BuildConnections(isSphericalGround, gridSize', particles',
                                       springConst, dampingConst)
    /\ indices' = BuildIndices(gridSize')
    /\ fixedParticleIdx' = [i \in 1..gridSize' |-> i - 1]
    /\ initialPositions' = Positions(particles')
    /\ normals' = BuildNormals(isSphericalGround, gridSize', groundPos')
    /\ builds' = builds + 1
    /\ positionBuffer' \in {NoBuffer, Positions(particles')}
    /\ UNCHANGED <<isSphericalGround, sceneVars, mass, gravityAcce, springConst, dampingConst,
                   windVelocity, fluidDensity, c_d, groundLevel, timeVars, frames>>

NextThrowing ==
    \/ \E n \in TriangleValues : SetNumTriangles(n, MaxRebuilds)
    \/ \E n \in TriangleValues : SetNumTrianglesThrowing(n, MaxRebuilds)
    \/ EnablePhysics

SpecThrowing == Init /\ [][NextThrowing]_vars

(***************************************************************************)
(* The scene manager: the scene buttons, the mode radio buttons, the two   *)
(* count inputs, the drop and reset buttons and the render loop            *)
(***************************************************************************)
SceneIndexes == -1..2
Modes == {"physics", "simple"}
ParticleInputs == {3, 30, 50}
TriangleInputs == {1, 8, 20000}

getCurrentScene == scenes[currentSceneIndex]

\* currentGround instanceof SphericalGround, for the cloth of the current scene
UseSphere == getCurrentScene.cloth.ground = "SphericalGround"

\* what a handler of main.ts leaves alone: the mesh studied above
meshVars == <<isSphericalGround, physVars, topoVars, paramVars, timeVars, countVars>>

switchScene(sceneIndex) ==
    /\ lastOp' = "switchScene"
    /\ IF sceneIndex < 0 \/ sceneIndex >= 2 \/ currentSceneIndex = sceneIndex
       THEN UNCHANGED sceneVars
       ELSE /\ currentSceneIndex' = sceneIndex
            /\ scenes' =
                 IF sceneIndex = 1
                 THEN [scenes EXCEPT
                         ![1].cloth = GentleSettings(createClothWithSphere(25))]
                 ELSE [scenes EXCEPT ![sceneIndex].cloth.timed = FALSE]
    /\ UNCHANGED meshVars

switchMode(mode) ==
    /\ lastOp' = "switchMode"
    /\ IF getCurrentScene.mode = mode
       THEN UNCHANGED scenes
       ELSE scenes' =
              [scenes EXCEPT ![currentSceneIndex] =
                  IF mode = "physics"
                  THEN NewScene(FreshCloth("Cloth", UseSphere, 25), mode)
                  ELSE NewScene(FreshCloth("SimpleCloth", UseSphere, 1000), mode)]
    /\ UNCHANGED <<currentSceneIndex, meshVars>>

recreateCloth(numParticles) ==
    [scenes EXCEPT ![currentSceneIndex].cloth =
        FreshCloth("Cloth", UseSphere, numParticles)]

\* a SimpleCloth is kept and resized: setNumTriangles, then the reset and
\* the settings of scene 2, or enablePhysics on scene 1
recreateSimpleCloth(target) ==
    [scenes EXCEPT ![currentSceneIndex].cloth =
        IF @.class = "SimpleCloth"
        THEN IF UseSphere
             THEN GentleSettings([@ EXCEPT !.count = target,
                                           !.isDropped = FALSE, !.timed = FALSE])
             ELSE SceneEnablePhysics([@ EXCEPT !.count = target])
        ELSE FreshCloth("SimpleCloth", UseSphere, target)]

\* the callback of the numParticles input
NumParticlesControl(value) ==
    /\ lastOp' = "numParticles"
    /\ scenes' = IF getCurrentScene.mode = "physics"
                 THEN recreateCloth(Max(5, Min(39, value)))
                 ELSE scenes
    /\ UNCHANGED <<currentSceneIndex, meshVars>>

\* the callback of the numTriangles input
NumTrianglesControl(value) ==
    /\ lastOp' = "numTriangles"
    /\ scenes' = IF getCurrentScene.mode = "simple"
                 THEN recreateSimpleCloth(Max(2, Min(10000, value)))
                 ELSE scenes
    /\ UNCHANGED <<currentSceneIndex, meshVars>>

dropCloth ==
    /\ lastOp' = "dropCloth"
    /\ scenes' = [scenes EXCEPT ![currentSceneIndex].cloth.isDropped = TRUE]
    /\ UNCHANGED <<currentSceneIndex, meshVars>>

resetClothToInitial ==
    /\ lastOp' = "resetClothToInitial"
    /\ scenes' = [scenes EXCEPT ![currentSceneIndex].cloth.isDropped = FALSE,
                                ![currentSceneIndex].cloth.timed = FALSE]
    /\ UNCHANGED <<currentSceneIndex, meshVars>>

\* a frame: update() of the cloth of the current scene records a timestamp
renderLoop ==
    /\ lastOp' = "renderLoop"
    /\ scenes' = [scenes EXCEPT ![currentSceneIndex].cloth.timed = TRUE]
    /\ UNCHANGED <<currentSceneIndex, meshVars>>

InitScenes ==
    /\ isSphericalGround = FALSE
    /\ Constructed
    /\ isDropped = FALSE
    /\ prevT = 0

NextScenes ==
    \/ \E sceneIndex \in SceneIndexes : switchScene(sceneIndex)
    \/ \E mode \in Modes : switchMode(mode)
    \/ \E value \in ParticleInputs : NumParticlesControl(value)
    \/ \E value \in TriangleInputs : NumTrianglesControl(value)
    \/ dropCloth
    \/ resetClothToInitial
    \/ renderLoop

SpecScenes == InitScenes /\ [][NextScenes]_vars

(***************************************************************************)
(* A sheet simulated while its top row is still held, and then released    *)
(***************************************************************************)
MaxHeldFrames == 4

HeldElapsed == {16, 40}

NextHeld ==
    \/ \E el \in HeldElapsed : UpdateWithin(el, MaxHeldFrames)
    \/ EnablePhysics
    \/ Drop
    \/ ResetToInitialState
    \/ ResetTiming

SpecHeld == Init /\ [][NextHeld]_vars

(***************************************************************************)
(* One spring and one triangle on their own: three particles that are put  *)
(* on top of one another, on a line or apart, at rest or moving, and the   *)
(* spring between particles 0 and 1 and the triangle 0, 1, 2 evaluated     *)
(***************************************************************************)
MaxPlacements == 2
MaxEvaluations == 3

PlaceValues == {<<0, 0, 0>>, <<1, 0, 0>>, <<0, 300, 0>>}
SpeedValues == {<<0, 0, -600>>, <<900, 0, 300>>}
RestLengths == {0, 250}
WindChoices == {<<0, 0, 0>>, <<0, 0, -600>>}
DirValues == {<<0, 0, 0>>, <<400, 0, 0>>, <<0, One, 0>>}

TheSpring == connections[1]

TheTriangle == triangles[1]

elementVars == <<isSphericalGround, sceneVars, positionBuffer, numTriangles, gridSize,
                 restLength, particleMass, indices, fixedParticleIdx,
                 initialPositions, builds, paramVars, timeVars, log>>

InitForces ==
    /\ isSphericalGround = FALSE
    /\ particles = [i \in 0..2 |->
                       NewParticle(<<<<0, 0, 0>>, <<400, 0, 0>>, <<0, 300, 0>>>>[i + 1],
                                   Quot(DefaultMass, 4), DefaultGravityAcce,
                                   DefaultGroundPos, FALSE)]
    /\ \E rest \in RestLengths :
          connections =
              <<NewSpringDamper(0, 1, DefaultSpringConst, DefaultDampingConst, rest)
                  @@ [prevDir |-> ConstructorDir(particles, 0, 1)]>>
    /\ \E wind \in WindChoices :
          triangles = <<NewTriangle(0, 1, 2, DefaultFluidDensity, DefaultDragConst,
                                    wind)>>
    /\ normals = [i \in 0..2 |-> Zero3]
    /\ numTriangles = 1
    /\ gridSize = 2
    /\ restLength = 0
    /\ particleMass = Quot(DefaultMass, 4)
    /\ indices = <<0, 1, 2>>
    /\ fixedParticleIdx = <<>>
    /\ initialPositions = Positions(particles)
    /\ positionBuffer = Positions(particles)
    /\ builds = 1
    /\ mass = DefaultMass
    /\ gravityAcce = DefaultGravityAcce
    /\ groundPos = DefaultGroundPos
    /\ springConst = DefaultSpringConst
    /\ dampingConst = DefaultDampingConst
    /\ windVelocity = triangles[1].windVelocity
    /\ fluidDensity = DefaultFluidDensity
    /\ c_d = DefaultDragConst
    /\ groundLevel = DefaultGroundPos
    /\ isDropped = FALSE
    /\ prevT = 0
    /\ now = StartTime
    /\ lastOp = "constructor"
    /\ log = <<>>
    /\ frames = 0
    /\ edits = 0
    /\ ScenesCreated

\* the position and the velocity of one particle are written from outside
ElementPlace(i, pos, vel) ==
    /\ edits < MaxPlacements
    /\ edits' = edits + 1
    /\ lastOp' = "place"
    /\ particles' = [particles EXCEPT ![i].position = pos, ![i].velocity = vel]
    /\ UNCHANGED <<elementVars, connections, triangles, normals, frames>>

Evaluation(name) ==
    /\ frames < MaxEvaluations
    /\ frames' = frames + 1
    /\ lastOp' = name
    /\ UNCHANGED <<elementVars, triangles, edits>>

SpringComputeForce ==
    /\ Evaluation("computeForce")
    /\ particles' = computeForce(particles, TheSpring)
    /\ connections' = <<RememberDir(particles, TheSpring,
                                    ConstructorDir(particles, 0, 1))>>
    /\ UNCHANGED normals

TriangleComputeAerodynamicForce ==
    /\ Evaluation("computeAerodynamicForce")
    /\ particles' = computeAerodynamicForce(particles, TheTriangle)
    /\ UNCHANGED <<connections, normals>>

TriangleComputeNormal ==
    /\ Evaluation("computeNormal")
    /\ normals' = computeNormal(normals, particles, TheTriangle)
    /\ UNCHANGED <<connections, particles>>

NextForces ==
    \/ \E i \in 0..2, pos \in PlaceValues, vel \in SpeedValues :
           ElementPlace(i, pos, vel)
    \/ SpringComputeForce
    \/ TriangleComputeAerodynamicForce
    \/ TriangleComputeNormal

SpecForces == InitForces /\ [][NextForces]_vars

(***************************************************************************)
(* Particle on its own: one particle, in any state its interface can put   *)
(* it in, driven through applyForce, setFixed and integrate                *)
(***************************************************************************)
ParticlePositions == {<<0, 1200, 0>>, <<0, 520, 0>>, <<300, 20, 0>>}
ParticleVelocities == {<<0, 0, 0>>, <<0, -2000, 300>>}
ForceValues == {<<0, 0, 0>>, <<0, 5000, 300>>}
StepValues == {800, 1500}

\* the particle under test
Alone == particles[0]

aloneVars == <<isSphericalGround, sceneVars, positionBuffer, normals, topoVars, paramVars, timeVars,
               log>>

InitParticle ==
    /\ isSphericalGround \in BOOLEAN
    /\ \E pos \in ParticlePositions, vel \in ParticleVelocities,
          f \in ForceValues, fixed \in BOOLEAN :
          LET fresh == NewParticle(pos, Quot(DefaultMass, 4), DefaultGravityAcce,
                                   DefaultGroundPos, FALSE)
              bound == IF isSphericalGround THEN BindSphere(fresh, ClothSize)
                       ELSE fresh
          IN  particles = [i \in {0} |->
                             [bound EXCEPT !.velocity = vel, !.force = f,
                                           !.isFixed = fixed]]
    /\ numTriangles = 0
    /\ gridSize = 1
    /\ restLength = 0
    /\ particleMass = Quot(DefaultMass, 4)
    /\ connections = <<>>
    /\ triangles = <<>>
    /\ indices = <<>>
    /\ fixedParticleIdx = <<>>
    /\ initialPositions = Positions(particles)
    /\ positionBuffer = Positions(particles)
    /\ normals = [i \in {0} |-> Zero3]
    /\ builds = 1
    /\ mass = DefaultMass
    /\ gravityAcce = DefaultGravityAcce
    /\ groundPos = DefaultGroundPos
    /\ springConst = DefaultSpringConst
    /\ dampingConst = DefaultDampingConst
    /\ windVelocity = DefaultWindVelocity
    /\ fluidDensity = DefaultFluidDensity
    /\ c_d = DefaultDragConst
    /\ groundLevel = DefaultGroundPos
    /\ isDropped = FALSE
    /\ prevT = 0
    /\ now = StartTime
    /\ lastOp = "constructor"
    /\ log = <<>>
    /\ frames = 0
    /\ edits = 0
    /\ ScenesCreated

ParticleApplyForce(f) ==
    /\ edits < MaxEdits
    /\ edits' = edits + 1
    /\ lastOp' = "applyForce"
    /\ particles' = [particles EXCEPT ![0] = applyForce(@, f)]
    /\ UNCHANGED <<aloneVars, frames>>

ParticleSetFixed(fixed) ==
    /\ edits < MaxEdits
    /\ edits' = edits + 1
    /\ lastOp' = "setFixed"
    /\ particles' = [particles EXCEPT ![0].isFixed = fixed]
    /\ UNCHANGED <<aloneVars, frames>>

ParticleIntegrate(deltaTime) ==
    /\ frames < MaxFrames
    /\ frames' = frames + 1
    /\ lastOp' = "integrate"
    /\ particles' = [particles EXCEPT ![0] = integrate(@, deltaTime)]
    /\ UNCHANGED <<aloneVars, edits>>

NextParticle ==
    \/ \E f \in ForceValues : ParticleApplyForce(f)
    \/ \E fixed \in BOOLEAN : ParticleSetFixed(fixed)
    \/ \E deltaTime \in StepValues : ParticleIntegrate(deltaTime)

SpecParticle == InitParticle /\ [][NextParticle]_vars

(***************************************************************************)
(* Properties                                                              *)
(***************************************************************************)
ForceCalls == {"computeForce", "computeAerodynamicForce"}

\* C1: within every substep of update, every computeForce and
\* computeAerodynamicForce call is made before the first integrate call (the
\* substeps follow one another, and once a substep has integrated a particle
\* it makes no further force call), and a force call changes nothing of any
\* particle but its force accumulator.
ForcesBeforeIntegration ==
    /\ \A k \in 1..(Len(log) - 1) :
          /\ log[k].substep <= log[k + 1].substep
          /\ (log[k].call = "integrate" /\ log[k + 1].substep = log[k].substep)
                => log[k + 1].call = "integrate"
    /\ \A k \in 1..Len(log) :
          /\ log[k].call \in ForceCalls \cup {"integrate"}
          /\ log[k].call \in ForceCalls => log[k].pure

\* an update that ran all its substeps on particles in motion: every spring,
\* triangle and particle was visited in each, and integrate moved a particle
SubstepsRan ==
    /\ lastOp = "update"
    /\ Len(log) = numOfOversamples
                    * (Len(connections) + Len(triangles) + gridSize * gridSize)
    /\ log[1].call = "computeForce"
    /\ \E k \in 1..Len(log) : log[k].call = "integrate" /\ ~log[k].pure

\* C2: an update made while the mesh is Idle runs no substep (its call log is
\* empty) and leaves every particle (position, velocity, force, fixed flag)
\* as it was.
IdleUpdateIsInert ==
    [][(lastOp' = "update" /\ ~isDropped) =>
           (particles' = particles /\ log' = <<>>)]_vars

\* a second update of an Idle mesh, which has a previous timestamp to step from
IdleUpdateSeen ==
    lastOp = "update" /\ ~isDropped /\ frames >= 2 /\ prevT # 0 /\ now > prevT

\* C3: integrate leaves the position and the velocity of a fixed particle
\* unchanged, whatever its force, its velocity and its place are.
FixedParticleStays ==
    [][(lastOp' = "integrate" /\ Alone.isFixed) =>
           (Alone'.position = Alone.position /\ Alone'.velocity = Alone.velocity)]_vars

\* a fixed particle, moving and under a force, that was integrated
FixedParticleIntegrated ==
    /\ lastOp = "integrate"
    /\ Alone.isFixed
    /\ Alone.velocity # Zero3
    /\ Alone.force # Zero3

\* C4: no update changes the position of a particle whose fixed flag is set,
\* over the plane or the sphere, Idle or Running.
UpdateKeepsFixedInPlace ==
    [][lastOp' = "update" =>
           \A i \in DOMAIN particles :
               particles[i].isFixed =>
                   particles'[i].position = particles[i].position]_vars

\* C5: after integrate the force accumulator of the particle is zero, whether
\* the particle is fixed or free.
IntegrateClearsForce == lastOp = "integrate" => Alone.force = Zero3

\* C6: after any sequence of setter and setNumTriangles calls every particle
\* holds the mesh mass divided by the particle count and the mesh gravity,
\* every spring the mesh spring and damping constants, and every triangle
\* the mesh fluid density, drag coefficient and wind velocity.
ParametersReachElements ==
    /\ \A i \in DOMAIN particles :
          /\ particles[i].mass = Quot(mass, Cardinality(DOMAIN particles))
          /\ particles[i].gravityAcce = gravityAcce
    /\ \A k \in DOMAIN connections :
          /\ connections[k].springConst = springConst
          /\ connections[k].dampingConst = dampingConst
    /\ \A k \in DOMAIN triangles :
          /\ triangles[k].fluidDensity = fluidDensity
          /\ triangles[k].c_d = c_d
          /\ triangles[k].windVelocity = windVelocity

\* C7: drop leaves the mesh Running with the fixed flag of every particle of
\* the fixed set cleared; a Running mesh becomes Idle by resetToInitialState
\* only; enablePhysics sets the dropped flag and changes nothing else.
DropAndEnablePhysics ==
    [][/\ lastOp' = "drop" =>
            /\ isDropped'
            /\ \A k \in DOMAIN fixedParticleIdx :
                   ~particles'[fixedParticleIdx[k]].isFixed
       /\ (isDropped /\ ~isDropped') => lastOp' = "resetToInitialState"
       /\ lastOp' = "enablePhysics" =>
            /\ isDropped'
            /\ UNCHANGED <<isSphericalGround, sceneVars, normals, particles, positionBuffer, topoVars,
                           paramVars, prevT>>]_vars

\* a mesh dropped after an Idle update, its top row released
DroppedMesh ==
    /\ lastOp = "drop"
    /\ isDropped
    /\ frames > 0
    /\ \A i \in DOMAIN particles : ~particles[i].isFixed

\* C8: after resetToInitialState every particle is at the position the most
\* recent build stored for it, with zero velocity and zero force, the
\* particles of the fixed set are fixed, the mesh is Idle and the previous
\* timestamp is 0.
ResetRestoresBuild ==
    lastOp = "resetToInitialState" =>
        /\ Positions(particles) = initialPositions
        /\ \A i \in DOMAIN particles :
              particles[i].velocity = Zero3 /\ particles[i].force = Zero3
        /\ \A k \in DOMAIN fixedParticleIdx : particles[fixedParticleIdx[k]].isFixed
        /\ ~isDropped
        /\ prevT = 0

\* a reset of a mesh that was rebuilt or had its top row moved, and simulated
ResetAfterUse ==
    lastOp = "resetToInitialState" /\ edits > 0 /\ frames >= 2 /\ now > StartTime

\* C9: in every state, after drop included, translateFixedParticles adds
\* shift to the axis coordinate of exactly the particles whose fixed flag is
\* set: it changes no other coordinate of theirs and no position of a
\* particle whose fixed flag is clear.
TranslateMovesFlaggedOnly ==
    [][lastOp' = "translateFixedParticles" =>
           \E axis \in Axes, shift \in ShiftValues :
               \A i \in DOMAIN particles :
                   particles'[i].position =
                       IF particles[i].isFixed
                       THEN [particles[i].position EXCEPT ![axis + 1] = @ + shift]
                       ELSE particles[i].position]_vars

\* C11: every update that advances physics runs numOfOversamples substeps,
\* numbered 0 to numOfOversamples - 1, each integrating every particle once
\* with deltaTime = min(time elapsed since the previous timestamp, 30 ms)
\* / numOfOversamples, so that no integrate call is given more than 1.5 ms.
SubstepLengthClamped ==
    [][(lastOp' = "update" /\ log' # <<>>) =>
           /\ \A i \in 0..(numOfOversamples - 1) :
                  Cardinality({k \in DOMAIN log' :
                                  /\ log'[k].call = "integrate"
                                  /\ log'[k].substep = i}) = Cardinality(DOMAIN particles)
           /\ \A k \in DOMAIN log' :
                  /\ log'[k].substep \in 0..(numOfOversamples - 1)
                  /\ log'[k].call = "integrate" =>
                        /\ log'[k].deltaT =
                              Quot(Min((now' - prevT) * MicrosPerMilli, MaxDeltaT),
                                   numOfOversamples)
                        /\ log'[k].deltaT <= Quot(MaxDeltaT, numOfOversamples)]_vars

\* C10: when update returns, Idle or Running, the position buffer holds the
\* positions of the particles, a translation or rotation of the fixed row
\* made before the call included.
BufferFollowsUpdate == lastOp = "update" => positionBuffer = Positions(particles)

\* C12: after setNumTriangles(n) with n different from the current target
\* the particles, springs and triangles are of a new build, the grid has g * g particles, g - 1 being the least number of quads per
\* side with 2 * (g - 1)^2 >= n; every particle has zero velocity and zero
\* force; the fixed particles are exactly those of row 0 (indices below g);
\* and every spring and triangle refers to particles of the new array only.
RebuildIsFresh ==
    [][(lastOp' = "setNumTriangles" /\ numTriangles' # numTriangles) =>
           LET g == gridSize'
           IN  /\ 2 * (g - 1) * (g - 1) >= numTriangles'
               /\ g >= 2 => 2 * (g - 2) * (g - 2) < numTriangles'
               /\ builds' = builds + 1
               /\ DOMAIN particles' = 0..(g * g - 1)
               /\ \A i \in DOMAIN particles' :
                      /\ particles'[i].velocity = Zero3
                      /\ particles'[i].force = Zero3
                      /\ particles'[i].isFixed <=> i < g
               /\ \A k \in DOMAIN connections' :
                      {connections'[k].p1, connections'[k].p2}
                          \subseteq DOMAIN particles'
               /\ \A k \in DOMAIN triangles' :
                      {triangles'[k].p1, triangles'[k].p2, triangles'[k].p3}
                          \subseteq DOMAIN particles']_vars

\* a dropped mesh that ran frames, was rebuilt at a finer resolution and
\* then at the coarser one again
RebuiltAfterUse ==
    /\ lastOp = "setNumTriangles"
    /\ builds = 3
    /\ numTriangles = InitialTriangles
    /\ gridSize = 2
    /\ isDropped
    /\ frames >= 2

\* C13: a setNumTriangles(n) that follows a setNumTriangles(n) with the same
\* n creates no instance and changes nothing of the mesh: target, grid
\* size, particles, springs, triangles, indices, fixed set, stored positions,
\* parameters, buffer and timing are what the first call left.
RepeatedResizeIsIdle ==
    [][(lastOp = "setNumTriangles" /\ lastOp' = "setNumTriangles"
            /\ numTriangles' = numTriangles) =>
           UNCHANGED <<isSphericalGround, sceneVars, normals, topoVars, paramVars, timeVars,
                       particles, positionBuffer>>]_vars

\* the second of two setNumTriangles(n) calls, the first of which rebuilt a
\* mesh that had been dropped and simulated
ResizedTwice ==
    /\ lastOp = "setNumTriangles"
    /\ edits = 2
    /\ builds = 2
    /\ numTriangles # InitialTriangles
    /\ isDropped
    /\ frames >= 2

\* C14: over the flat ground, when an update that advanced physics returns,
\* every particle that is not fixed is at a height of at least its stored
\* ground height plus the collision margin, whatever setGroundPos,
\* translateFixedParticles, drop and update calls came before.
StaysAboveGround ==
    (lastOp = "update" /\ log # <<>> /\ ~isSphericalGround) =>
        \A i \in DOMAIN particles :
            ~particles[i].isFixed =>
                particles[i].position[2]
                    >= particles[i].groundPos + BASE_COLLISION_MARGIN

\* a physics step after the ground was raised above the lower rows of the
\* sheet: a free particle was lifted to the margin over the new ground
LiftedToGround ==
    /\ lastOp = "update"
    /\ log # <<>>
    /\ ~isSphericalGround
    /\ groundPos > DefaultGroundPos
    /\ \E i \in DOMAIN particles :
           /\ ~particles[i].isFixed
           /\ particles[i].groundPos = groundPos
           /\ initialPositions[i][2] < groundPos
           /\ particles[i].position[2] = groundPos + BASE_COLLISION_MARGIN

\* the rounding of the fixed-point lengths, in mm
Slack == 5

\* C15: over the sphere, when an update that advanced physics returns,
\* every particle that is not fixed is at a distance from the sphere centre
\* of at least the radius plus its collision margin (here: up to the
\* rounding of the lengths).
StaysOutsideSphere ==
    (lastOp = "update" /\ log # <<>> /\ isSphericalGround) =>
        \A i \in DOMAIN particles :
            ~particles[i].isFixed =>
                Length(VSub(particles[i].position, SphereCenter)) + Slack
                    >= SphereRadius + getSphereCollisionMargin(particles[i])

\* the force a call added to the accumulator of particle i
Added(i) == VSub(particles'[i].force, particles[i].force)

\* C16: a computeForce evaluation adds a force F to the accumulator of
\* particle 1 of the spring and exactly -F to that of particle 2, so that the
\* sum of the two accumulators is unchanged; it changes nothing else of any
\* particle; and what it adds does not depend on the direction the spring
\* remembers from its construction or from an earlier evaluation.
SpringForcesBalance ==
    [][lastOp' = "computeForce" =>
           /\ Added(TheSpring.p2) = VNeg(Added(TheSpring.p1))
           /\ VAdd(particles'[TheSpring.p1].force, particles'[TheSpring.p2].force)
                 = VAdd(particles[TheSpring.p1].force, particles[TheSpring.p2].force)
           /\ SansForce(particles') = SansForce(particles)
           /\ particles'[2] = particles[2]
           /\ \A d \in DirValues :
                  computeForce(particles, [TheSpring EXCEPT !.prevDir = d])
                      = particles']_vars

\* a second evaluation in a row of a stretched spring between particles that
\* move apart: the remembered direction differs from the one before the
\* first evaluation, and the force added is not zero
SpringEvaluatedTwice ==
    /\ lastOp = "computeForce"
    /\ frames >= 2
    /\ TheSpring.prevDir \notin DirValues
    /\ particles[0].velocity # particles[1].velocity
    /\ particles[0].force # Zero3
    /\ particles[1].force = VNeg(particles[0].force)

\* the cross product of the two edges of the triangle
FaceCross ==
    Cross(VSub(particles[TheTriangle.p2].position, particles[TheTriangle.p1].position),
          VSub(particles[TheTriangle.p3].position, particles[TheTriangle.p1].position))

\* the velocity of the triangle relative to the wind
RelativeToWind ==
    VSub(VScale(VAdd(VAdd(particles[TheTriangle.p1].velocity,
                          particles[TheTriangle.p2].velocity),
                     particles[TheTriangle.p3].velocity), 1, 3),
         TheTriangle.windVelocity)

SpringIsSlack ==
    Length(VSub(particles[TheSpring.p2].position, particles[TheSpring.p1].position))
        <= EPSILON

\* C17: a spring whose ends are EPSILON or less apart adds nothing to the
\* force of either end, whatever their velocities and its rest length; a
\* triangle slower than EPSILON relative to the wind adds no force; a
\* triangle of zero area adds no force and no normal; each evaluation
\* completes and leaves every particle and normal defined.
DegenerateAddsNothing ==
    [][/\ (lastOp' = "computeForce" /\ SpringIsSlack) => particles' = particles
       /\ (lastOp' = "computeAerodynamicForce"
              /\ (Length(RelativeToWind) < EPSILON \/ FaceCross = Zero3))
             => particles' = particles
       /\ (lastOp' = "computeNormal" /\ FaceCross = Zero3) => normals' = normals
       /\ lastOp' \in {"computeForce", "computeAerodynamicForce", "computeNormal"}
             => /\ \A i \in DOMAIN particles' :
                      particles'[i].force \in Int \X Int \X Int
                /\ \A i \in DOMAIN normals' :
                      normals'[i] \in Int \X Int \X Int]_vars

\* a spring whose ends are within EPSILON of one another without coinciding
\* and move apart, of rest length above zero, and a triangle of zero area in
\* the wind, after the spring, the aerodynamic force and the normal were
\* evaluated on them
DegenerateEvaluated ==
    /\ lastOp \in {"computeForce", "computeAerodynamicForce", "computeNormal"}
    /\ frames = MaxEvaluations
    /\ SpringIsSlack
    /\ particles[TheSpring.p1].position # particles[TheSpring.p2].position
    /\ particles[TheSpring.p1].velocity # particles[TheSpring.p2].velocity
    /\ TheSpring.restLength > 0
    /\ FaceCross = Zero3
    /\ Length(RelativeToWind) >= EPSILON
    /\ \A i \in DOMAIN particles : particles[i].force = Zero3
    /\ \A i \in DOMAIN normals : normals[i] = Zero3

\* C18: after setGroundPos(h), over the plane or the sphere, the call has
\* run to its end: the ground height of the mesh is h and the ground height
\* stored in every particle is that of the mesh.
GroundPosReachesParticles ==
    lastOp = "setGroundPos" =>
        /\ groundPos \in GroundValues
        /\ \A i \in DOMAIN particles : particles[i].groundPos = groundPos

\* C19: after any sequence of setter calls, negative arguments included, the
\* gravity, spring constant, damping constant, fluid density and drag
\* coefficient of the mesh and the copies of them held by every particle,
\* spring and triangle are not negative.
ParametersNonNegative ==
    /\ gravityAcce >= 0
    /\ springConst >= 0
    /\ dampingConst >= 0
    /\ fluidDensity >= 0
    /\ c_d >= 0
    /\ \A i \in DOMAIN particles : particles[i].gravityAcce >= 0
    /\ \A k \in DOMAIN connections :
          connections[k].springConst >= 0 /\ connections[k].dampingConst >= 0
    /\ \A k \in DOMAIN triangles :
          triangles[k].fluidDensity >= 0 /\ triangles[k].c_d >= 0

\* a mesh that simulated frames after setGravityAcce was given a negative
\* gravity: the mesh and every particle hold its absolute value
NegativeGravityGiven ==
    /\ lastOp = "update"
    /\ log # <<>>
    /\ edits = 1
    /\ \E g \in GravityValues : g < 0 /\ gravityAcce = -g
    /\ \A i \in DOMAIN particles : particles[i].gravityAcce = gravityAcce

\* C20: every update call made while the mesh is Idle records the time of
\* that call as the previous timestamp, so that the first physics step after
\* drop or enablePhysics measures the elapsed time from the latest update.
IdleUpdateRecordsTimestamp ==
    [][(lastOp' = "update" /\ frames' = frames + 1 /\ ~isDropped)
          => prevT' = now']_vars

\* the pairs of particles of a g x g grid that are neighbours in a row, in a
\* column or across a diagonal of a quad
GridNeighbours(g) ==
    {{a, b} : <<a, b>> \in
        {pr \in (0..(g * g - 1)) \X (0..(g * g - 1)) :
            /\ pr[1] < pr[2]
            /\ Abs((pr[1] % g) - (pr[2] % g)) <= 1
            /\ Abs((pr[1] \div g) - (pr[2] \div g)) <= 1}}

SpringEnds(k) == {connections[k].p1, connections[k].p2}

\* C21: after any build of a g x g grid there is exactly one spring for every
\* pair of particles adjacent in a row, in a column or across a diagonal of a
\* quad, no pair has two springs and no other pair has one: 4(g-1)^2 + 2(g-1)
\* springs.
SpringsCoverGrid ==
    /\ Len(connections) = 4 * (gridSize - 1) * (gridSize - 1) + 2 * (gridSize - 1)
    /\ \A k \in DOMAIN connections : connections[k].p1 # connections[k].p2
    /\ {SpringEnds(k) : k \in DOMAIN connections} = GridNeighbours(gridSize)
    /\ \A j, k \in DOMAIN connections : SpringEnds(j) = SpringEnds(k) => j = k

\* a 3 x 3 grid built by setNumTriangles over a mesh already in use
LargerGridBuilt ==
    /\ lastOp = "setNumTriangles"
    /\ builds >= 2
    /\ gridSize = 3
    /\ Len(connections) = 20

\* the accumulators with what the force passes of one substep put in them
\* added to the sum acc
WithApplied(acc, before, after) ==
    [i \in DOMAIN acc |-> VAdd(acc[i], VSub(after[i].force, before[i].force))]

\* per particle, in the field acc, the sum of the forces the springs and
\* triangles apply to it in the substeps first..last of an update
\* substep s from the state st and the sums acc, given the state forced
\* that its two force passes leave
AppliedStep(st, forced, acc, s, deltaT) ==
    [ps |-> IntegratePass(forced, 0, s, deltaT).ps,
     log |-> forced.log,
     acc |-> WithApplied(acc, st.ps, forced.ps)]

RECURSIVE AppliedRange(_, _, _, _)
AppliedRange(st, first, last, deltaT) ==
    IF first = last
    THEN CHOOSE after \in
             {AppliedStep(st, forced, st.acc, first, deltaT) :
                 forced \in {AeroPass(sprung, triangles, 1, first) :
                     sprung \in {SpringPass(st, connections, 1, first)}}} :
             TRUE
    ELSE CHOOSE after \in
             {AppliedRange(mid, Half(first, last) + 1, last, deltaT) :
                 mid \in {AppliedRange(st, first, Half(first, last), deltaT)}} :
             TRUE

AppliedByUpdate(deltaT) ==
    AppliedRange([ps |-> particles, log |-> <<>>,
                  acc |-> [i \in DOMAIN particles |-> Zero3]],
                 0, numOfOversamples - 1, deltaT).acc

\* C22: update does not clear the forces springs and triangles apply to a
\* fixed particle: they add up over the substeps and frames, and stay in the
\* accumulator, through drop too, until the released particle is integrated
\* or resetToInitialState or resetTiming zeroes them.
FixedForcesAccumulate ==
    [][IF lastOp' = "update" /\ log' # <<>>
       THEN LET applied == AppliedByUpdate(SubstepDeltaT(now', prevT))
            IN  \A i \in DOMAIN particles :
                   particles[i].isFixed
                   => /\ particles'[i].isFixed
                      /\ particles'[i].force = VAdd(particles[i].force, applied[i])
       ELSE \A i \in DOMAIN particles :
               (/\ particles[i].isFixed
                /\ builds' = builds
                /\ lastOp' \notin {"resetToInitialState", "resetTiming"})
               => particles'[i].force = particles[i].force]_vars

\* a particle released by drop after two simulated frames, the force of
\* those frames still in its accumulator
ReleasedWithForce ==
    /\ lastOp = "drop"
    /\ frames >= 3
    /\ \E i \in DOMAIN particles :
          ~particles[i].isFixed /\ particles[i].force # Zero3

\* the substep lengths of the integrate calls of the last update
IntegrateLengths == {log[k].deltaT : k \in {j \in DOMAIN log : log[j].call = "integrate"}}

\* C23: with the previous timestamp 0, the first update made while Running
\* runs no substep and only records its time, and the update that follows
\* it uses the time between the two calls, clamped to 30 ms.
FirstFrameOnlyRecords ==
    [][(lastOp' = "update" /\ frames' = frames + 1 /\ isDropped)
          => /\ prevT = 0
                => /\ log' = <<>>
                   /\ particles' = particles
                   /\ prevT' = now'
             /\ (lastOp = "update" /\ log = <<>> /\ prevT = now)
                => /\ log' # <<>>
                   /\ IntegrateLengths' =
                         {Quot(Min((now' - now) * MicrosPerMilli, MaxDeltaT),
                               numOfOversamples)}]_vars

\* an update made while Running that only recorded its time, on a mesh that
\* had been updated before: the timestamp had been zeroed by a reset
RecordedAfterReset ==
    /\ lastOp = "update"
    /\ isDropped
    /\ log = <<>>
    /\ prevT = now
    /\ frames >= 2

\* C24: for every target n >= 1 the built mesh has q quads per side with q
\* the least integer such that 2*q*q >= n, and getNumTriangles returns 2*q*q,
\* which is at least n.
TargetCovered ==
    numTriangles >= 1 =>
        /\ gridSize - 1 >= 1
        /\ 2 * (gridSize - 1) * (gridSize - 1) >= numTriangles
        /\ 2 * (gridSize - 2) * (gridSize - 2) < numTriangles
        /\ getNumTriangles = 2 * (gridSize - 1) * (gridSize - 1)
        /\ getNumTriangles >= numTriangles

\* a mesh rebuilt for a target that is not twice a square: 9 triangles asked
\* for, 18 built
TargetRoundedUp ==
    /\ lastOp = "setNumTriangles"
    /\ numTriangles = 9
    /\ getNumTriangles = 18

\* the six indices of the quad whose top-left vertex is tl, in a grid of
\* side g: top-left, bottom-left, bottom-right; top-left, bottom-right,
\* top-right
QuadWinding(tl, g) == <<tl, tl + g, tl + g + 1, tl, tl + g + 1, tl + 1>>

\* C25: after any sequence of operations, with g the grid size, the particle,
\* position, normal and stored-position arrays have g*g entries, there are
\* 2(g-1)^2 triangles and 6(g-1)^2 indices, every index is in [0, g*g),
\* triangle t holds the particles at indices[3t..3t+2], every quad is wound
\* the same way, and the fixed-index set is {0..g-1}.
TopologyMatchesGrid ==
    /\ DOMAIN particles = 0..(gridSize * gridSize - 1)
    /\ DOMAIN positionBuffer = DOMAIN particles
    /\ DOMAIN normals = DOMAIN particles
    /\ DOMAIN initialPositions = DOMAIN particles
    /\ Len(triangles) = 2 * (gridSize - 1) * (gridSize - 1)
    /\ Len(indices) = 6 * (gridSize - 1) * (gridSize - 1)
    /\ \A k \in DOMAIN indices : indices[k] \in DOMAIN particles
    /\ \A t \in DOMAIN triangles :
          <<triangles[t].p1, triangles[t].p2, triangles[t].p3>>
              = SubSeq(indices, 3 * t - 2, 3 * t)
    /\ \A q \in 1..((gridSize - 1) * (gridSize - 1)) :
          SubSeq(indices, 6 * q - 5, 6 * q)
              = QuadWinding(indices[6 * q - 5], gridSize)
    /\ Len(fixedParticleIdx) = gridSize
    /\ {fixedParticleIdx[k] : k \in DOMAIN fixedParticleIdx} = 0..(gridSize - 1)

\* a 3 x 3 grid built by setNumTriangles, then dropped and simulated
RebuiltGridSimulated ==
    /\ lastOp = "update"
    /\ log # <<>>
    /\ builds = 2
    /\ gridSize = 3
    /\ \A i \in DOMAIN particles : ~particles[i].isFixed

FixedParticles == {i \in DOMAIN particles : particles[i].isFixed}

\* C26: in every reachable state the particles with the fixed flag set are
\* exactly row 0 (indices 0..g-1) or none, and they are exactly row 0
\* whenever the mesh is Idle.
FixedIsTopRowOrNone ==
    /\ FixedParticles = 0..(gridSize - 1) \/ FixedParticles = {}
    /\ ~isDropped => FixedParticles = 0..(gridSize - 1)

\* a mesh dropped and simulated with no particle fixed, then rebuilt while
\* Running: the top row of the new grid is fixed again
RefixedWhileRunning ==
    /\ lastOp = "setNumTriangles"
    /\ isDropped
    /\ builds = 2
    /\ frames >= 2
    /\ gridSize = 3
    /\ FixedParticles = 0..2

\* C27: setNumTriangles changes neither the dropped flag, nor the previous
\* timestamp, nor the mass, gravity, spring constant, damping constant, wind
\* velocity, fluid density or drag coefficient of the mesh.
RebuildKeepsLifecycle ==
    [][(lastOp' = "setNumTriangles" /\ edits' = edits + 1)
          => UNCHANGED <<isDropped, prevT, mass, gravityAcce, springConst,
                         dampingConst, windVelocity, fluidDensity, c_d>>]_vars

\* a mesh rebuilt while Running, its timestamp recorded and its mass changed
\* from the default before the rebuild
RebuiltWhileRunning ==
    /\ lastOp = "setNumTriangles"
    /\ builds = 2
    /\ isDropped
    /\ prevT # 0
    /\ mass # DefaultMass

\* C28: on the flat-ground mesh, after any sequence of setGroundPos and
\* setNumTriangles calls, the ground height of the mesh, the ground height
\* stored in every particle and the ground level of the Ground are equal.
GroundHeightsAgree ==
    ~isSphericalGround =>
        /\ groundLevel = groundPos
        /\ \A i \in DOMAIN particles : particles[i].groundPos = groundPos

\* C29: if createBuffers throws during setNumTriangles(n), the mesh is left
\* as it was before the call: the target triangle count, the particles, the
\* springs, the triangles and the GPU buffers are those from before, so that
\* a later setNumTriangles(n) attempts the rebuild again.
FailedRebuildRestores ==
    [][lastOp' = "setNumTriangles throws"
          => UNCHANGED <<numTriangles, particles, connections, triangles,
                         positionBuffer>>]_vars

\* C30: after any sequence of switchScene, switchMode, recreateCloth and
\* recreateSimpleCloth calls, the mode of each scene is 'simple' exactly when
\* its cloth is a SimpleCloth and 'physics' exactly when it is a Cloth, and
\* scene 0 keeps the plane ground and scene 1 the sphere.
ModeMatchesCloth ==
    /\ \A i \in DOMAIN scenes :
          /\ scenes[i].mode = "simple" <=> scenes[i].cloth.class = "SimpleCloth"
          /\ scenes[i].mode = "physics" <=> scenes[i].cloth.class = "Cloth"
    /\ scenes[0].cloth.ground = "Ground"
    /\ scenes[1].cloth.ground = "SphericalGround"

=============================================================================
